---- MODULE Spec2Model ----
(***************************************************************************)
(* A model of the gateway's stateful resource layer (pg_documentdb_gw):    *)
(* the pool manager and its connection pools, and the processors that      *)
(* drive the transaction store and the cursor store.                       *)
(*                                                                         *)
(* Two specifications share the module:                                    *)
(*   SpecPool     PoolManager (postgres/pool_manager.rs) with              *)
(*                ConnectionPool::acquire_connection and the periodic      *)
(*                unused-pool sweep, called by concurrent tasks;           *)
(*   SpecSession  the request processors of processor/transaction.rs,      *)
(*                processor/cursor.rs and processor/data_description.rs    *)
(*                over the transaction store and the cursor store.         *)
(***************************************************************************)
EXTENDS Integers, Sequences, FiniteSets, TLC

(***************************************************************************)
(* Bounds of the model.                                                    *)
(***************************************************************************)
\* Pools constructed by allocate_data_pool / get_system_shared_pool in a run.
MaxPools == 2
\* The clock runs from 0 to MaxTime.
MaxTime == 1
\* max_age the sweep task passes to clean_unused_pools, in clock units.
SweepMaxAge == 0

\* Transaction numbers a session uses: 1..MaxTxnNumber.
MaxTxnNumber == 2
\* The most rows a settings dump has.
MaxRows == 2

\* Tasks that call the pool manager concurrently.
Callers == {"c1", "c2"}
\* Credentials, as in tests/pool_manager_tests.rs (validate_user_pwd_change).
Users == {"user"}
Passes == {"before", "after"}
\* Values dynamic_configuration.max_connections() may return over a run.
MaxConnValues == {1, 5}
\* Values dynamic_configuration.system_connection_budget() may return when
\* read: a budget below one max-connections value and above the other.
Budgets == {2}

\* Client connections (one ConnectionContext each) that send requests.
Clients == {"a", "b"}
Sessions == {"s1"}
\* The physical connections of the data pool the requests borrow from.
Conns == {"k1", "k2"}
CursorIds == {1}
\* The ids a killCursors request may name: those, and one no cursor ever has.
KillCursorIds == CursorIds \cup {2}
\* The users clients authenticate as.
Usernames == {"u1", "u2"}
Colls == {"x", "y"}
\* The databases of the collections cursors are opened on.
Databases == {"db", "db2"}

\* usize arithmetic wraps modulo 2^64 where overflow checks are off.  TLC's
\* integers are 32 bits wide, so the modulus is scaled down; every value the
\* model draws stays far below it, so a wrapped difference lands at the top
\* of the range exactly as it does modulo 2^64.
UsizeModulus == 2 ^ 16

SYSTEM_REQUESTS_MAX_CONNECTIONS == 2
AUTHENTICATION_MAX_CONNECTIONS == 5

NoOne == "none"
NoPool == 0
\* Position of the two fixed pools in the sequence of pools ever constructed.
SystemRequestsPool == 1
SystemAuthPool == 2

VARIABLES
    max_conn,            \* dynamic_configuration.max_connections()
    pools,               \* every ConnectionPool constructed so far (Arc identity = index)
    user_data_pools,     \* PoolManager.user_data_pools: ClientKey -> pool
    system_shared_pools, \* PoolManager.system_shared_pools: max_conn -> pool
    user_lock,           \* the RwLock around user_data_pools
    shared_lock,         \* the RwLock around system_shared_pools
    pc,                  \* where each caller is in its current call
    call,                \* the current call's arguments and locals
    handed,              \* the pools some task was handed (it holds an Arc of them)
    ret,                 \* the call that returned in the step just taken, with its result
    sweep,               \* the clean_unused_pools task: position and locals
    now,                 \* the clock (Instant::now())
    idle,                \* per connection: how many times it sits in its pool
    conn_open,           \* per connection: the session whose BEGIN is open on it
    transactions,        \* TransactionStore: session id -> entry
    cursor_store,        \* CursorStore: (cursor id, username) -> CursorStoreEntry
    auth_state,          \* per client: the user its connection authenticated as
    ctx,                 \* per client: its ConnectionContext and request in progress
    reply,               \* the request answered in the step just taken, with its result
    values,              \* PgConfiguration.values: key -> value
    last_update_at,      \* PgConfiguration.last_update_at
    refresh,             \* the configuration refresh task: position and locals
    got,                 \* the getter that ran in the step just taken, with its result
    accessor,            \* the derived accessor in progress: position and snapshots lived through
    backend,             \* the backend session of the pooled connection
    in_transaction,      \* Connection.in_transaction
    query_call,          \* the call of Connection::query in progress
    issued,              \* the statements the latest call of query has sent
    query_result,        \* the call of query that returned in the step just taken
    request_tracker      \* the intervals recorded for the latest call of query

poolVars == <<max_conn, pools, user_data_pools, system_shared_pools,
              user_lock, shared_lock, pc, call, handed, ret, sweep, now>>

sessionVars == <<idle, conn_open, transactions, cursor_store, auth_state, ctx, reply>>

configVars == <<values, last_update_at, refresh, got, accessor>>

queryVars == <<backend, in_transaction, query_call, issued, query_result, request_tracker>>

vars == <<poolVars, sessionVars, configVars, queryVars>>

FreeLock == [writer |-> NoOne, readers |-> {}]
\* tokio::sync::RwLock: a read guard is granted while no writer holds the lock,
\* a write guard while nobody holds it.
CanRead(l) == l.writer = NoOne
CanWrite(l) == l.writer = NoOne /\ l.readers = {}

NoCall == [op |-> "none", user |-> "-", pass |-> "-", m |-> 0, pool |-> NoPool, stats |-> <<>>]
\* Results: Ok with the pool returned (if the call returns one), or the error.
\* "Panic" is a call whose task panicked instead of returning.
RetOk(p) == [kind |-> "Ok", pool |-> p, stats |-> <<>>]
RetErr(e) == [kind |-> e, pool |-> NoPool, stats |-> <<>>]
\* ret when the step just taken returned from no call.
NoRet == [op |-> "none", user |-> "-", pass |-> "-", m |-> 0,
          kind |-> "none", pool |-> NoPool, stats |-> <<>>]

RECURSIVE SeqOfSet(_)
\* The elements of a finite set of integers as a sequence (ascending).
SeqOfSet(S) ==
    IF S = {} THEN <<>>
    ELSE LET x == CHOOSE y \in S : \A z \in S : y <= z
         IN  <<x>> \o SeqOfSet(S \ {x})

Range(f) == {f[k] : k \in DOMAIN f}

(***************************************************************************)
(* ConnectionPool (postgres/connection_pool.rs)                            *)
(***************************************************************************)
\* ConnectionPool::new_with_user: a pool of the given max_size whose
\* last_used is the construction time.  kind/key/state record which registry
\* entry the pool was built for and what became of that entry.
new_with_user(kind, key, max_size) ==
    [kind |-> kind, key |-> key, max_size |-> max_size,
     last_used |-> now, state |-> "registered"]

FixedKey == <<"-", "-", 0>>
SharedKey(m) == <<"-", "-", m>>

\* PoolManager::get_real_max_connections: the outcomes of
\*   max_connections - system_connection_budget, floored at the budget.
\* The subtraction is on usize: when the budget exceeds max_connections it
\* panics where overflow checks are on and wraps where they are off.
get_real_max_connections(max_connections, system_connection_budget) ==
    LET wrapped == (max_connections - system_connection_budget) % UsizeModulus
        real_max_connections == IF wrapped < system_connection_budget
                                THEN system_connection_budget ELSE wrapped
    IN  IF max_connections >= system_connection_budget
        THEN {[panic |-> FALSE, size |-> real_max_connections]}
        ELSE {[panic |-> TRUE, size |-> 0],
              [panic |-> FALSE, size |-> real_max_connections]}

(***************************************************************************)
(* Calls of the pool manager.  A caller is idle, or inside one call; the   *)
(* step in which a call returns records its result in ret.                 *)
(***************************************************************************)
CanCall(c) == pc[c] = "idle"

\* Calls that may still construct a pool: the bound MaxPools is reserved when
\* such a call starts, so that no call is stopped half way.
Constructing == {c \in Callers : call[c].op \in {"allocate_data_pool", "get_system_shared_pool"}}
CanConstruct == Len(pools) + Cardinality(Constructing) < MaxPools + 2

\* The call with arguments and locals a returns r; a pool it returns is from
\* then on held (as an Arc) by a task.
Return(c, a, r) ==
    /\ pc' = [pc EXCEPT ![c] = "idle"]
    /\ call' = [call EXCEPT ![c] = NoCall]
    /\ handed' = IF r.pool = NoPool THEN handed ELSE handed \cup {r.pool}
    /\ ret' = [op |-> a.op, user |-> a.user, pass |-> a.pass, m |-> a.m,
               kind |-> r.kind, pool |-> r.pool, stats |-> r.stats]

\* The call goes on at label with arguments and locals a.
Goto(c, label, a) ==
    /\ pc' = [pc EXCEPT ![c] = label]
    /\ call' = [call EXCEPT ![c] = a]
    /\ ret' = NoRet
    /\ UNCHANGED handed

\* HashMap::insert: the new pool takes the key; a pool already stored under
\* the key is dropped from the registry (replaced).
Insert(map, key, p) == [k \in (DOMAIN map) \cup {key} |-> IF k = key THEN p ELSE map[k]]

PoolsAfterInsert(map, key, pool) ==
    LET old == IF key \in DOMAIN map THEN map[key] ELSE NoPool
    IN  [i \in 1..(Len(pools) + 1) |->
            IF i = Len(pools) + 1 THEN pool
            ELSE IF i = old THEN [pools[i] EXCEPT !.state = "replaced"] ELSE pools[i]]

\* A lookup that takes whichever entry the user and password have, whatever
\* max-connections value it was built under.
get_data_pool_any_max_connections(c, username, password) ==
    /\ CanCall(c)
    /\ CanRead(user_lock)
    /\ LET found == {key \in DOMAIN user_data_pools :
                        key[1] = username /\ key[2] = password}
           a == [NoCall EXCEPT !.op = "get_data_pool", !.user = username,
                               !.pass = password, !.m = max_conn]
       IN  IF found # {}
           THEN Return(c, a, RetOk(user_data_pools[CHOOSE key \in found : TRUE]))
           ELSE Return(c, a, RetErr("PoolMissing"))
    /\ UNCHANGED <<max_conn, pools, user_data_pools, system_shared_pools,
                   user_lock, shared_lock, sweep, now>>
    /\ UNCHANGED <<sessionVars, configVars, queryVars>>

\* A lookup that provisions the pool it misses.
get_data_pool_or_allocate(c, username, password) ==
    /\ CanCall(c)
    /\ CanWrite(user_lock)
    /\ LET key == <<username, password, max_conn>>
           a == [NoCall EXCEPT !.op = "get_data_pool", !.user = username,
                               !.pass = password, !.m = max_conn]
       IN  IF key \in DOMAIN user_data_pools
           THEN /\ Return(c, a, RetOk(user_data_pools[key]))
                /\ UNCHANGED <<pools, user_data_pools>>
           ELSE /\ pools' = PoolsAfterInsert(user_data_pools, key,
                                 new_with_user("user", key, max_conn))
                /\ user_data_pools' = Insert(user_data_pools, key, Len(pools) + 1)
                /\ Return(c, a, RetOk(Len(pools) + 1))
    /\ UNCHANGED <<max_conn, system_shared_pools, user_lock, shared_lock, sweep, now>>
    /\ UNCHANGED <<sessionVars, configVars, queryVars>>

\* get_data_pool, lines 73-81: read the current max-connections value and
\* look the key up under the read lock.
get_data_pool(c, username, password) ==
    /\ CanCall(c)
    /\ CanRead(user_lock)
    /\ LET max_connections == max_conn
           key == <<username, password, max_connections>>
           a == [NoCall EXCEPT !.op = "get_data_pool", !.user = username,
                               !.pass = password, !.m = max_connections]
       IN  IF key \in DOMAIN user_data_pools
           THEN Return(c, a, RetOk(user_data_pools[key]))
           ELSE Return(c, a, RetErr("PoolMissing"))
    /\ UNCHANGED <<max_conn, pools, user_data_pools, system_shared_pools,
                   user_lock, shared_lock, sweep, now>>
    /\ UNCHANGED <<sessionVars, configVars, queryVars>>

\* allocate_data_pool whose first check keeps its read guard while the call
\* goes on to the write lock.
allocate_data_pool_check_keeping_read_guard(c, username, password) ==
    /\ CanCall(c)
    /\ CanConstruct
    /\ CanRead(user_lock)
    /\ LET max_connections == max_conn
           key == <<username, password, max_connections>>
           a == [NoCall EXCEPT !.op = "allocate_data_pool", !.user = username,
                               !.pass = password, !.m = max_connections]
       IN  IF key \in DOMAIN user_data_pools
           THEN /\ Return(c, a, RetOk(NoPool))
                /\ UNCHANGED user_lock
           ELSE /\ Goto(c, "alloc_wlock", a)
                /\ user_lock' = [user_lock EXCEPT !.readers = @ \cup {c}]
    /\ UNCHANGED <<max_conn, pools, user_data_pools, system_shared_pools,
                   shared_lock, sweep, now>>
    /\ UNCHANGED <<sessionVars, configVars, queryVars>>

\* allocate_data_pool, lines 109-115: read max-connections, build the key
\* and check it under the read lock.
allocate_data_pool_check(c, username, password) ==
    /\ CanCall(c)
    /\ CanConstruct
    /\ CanRead(user_lock)
    /\ LET max_connections == max_conn
           key == <<username, password, max_connections>>
           a == [NoCall EXCEPT !.op = "allocate_data_pool", !.user = username,
                               !.pass = password, !.m = max_connections]
       IN  IF key \in DOMAIN user_data_pools
           THEN Return(c, a, RetOk(NoPool))
           ELSE Goto(c, "alloc_wlock", a)
    /\ UNCHANGED <<max_conn, pools, user_data_pools, system_shared_pools,
                   user_lock, shared_lock, sweep, now>>
    /\ UNCHANGED <<sessionVars, configVars, queryVars>>

\* allocate_data_pool, line 117: take the write lock.
allocate_data_pool_write_lock(c) ==
    /\ pc[c] = "alloc_wlock"
    /\ CanWrite(user_lock)
    /\ user_lock' = [user_lock EXCEPT !.writer = c]
    /\ Goto(c, "alloc_locked", call[c])
    /\ UNCHANGED <<max_conn, pools, user_data_pools, system_shared_pools,
                   shared_lock, sweep, now>>
    /\ UNCHANGED <<sessionVars, configVars, queryVars>>

\* The write-locked part of allocate_data_pool without the second check.
allocate_data_pool_locked_unchecked(c) ==
    /\ pc[c] = "alloc_locked"
    /\ user_lock.writer = c
    /\ user_lock' = [user_lock EXCEPT !.writer = NoOne]
    /\ LET key == <<call[c].user, call[c].pass, call[c].m>>
       IN  \E budget \in Budgets :
           \E size \in get_real_max_connections(call[c].m, budget) :
             IF size.panic
             THEN /\ Return(c, call[c], RetErr("Panic"))
                  /\ UNCHANGED <<pools, user_data_pools>>
             ELSE /\ pools' = PoolsAfterInsert(user_data_pools, key,
                                   new_with_user("user", key, size.size))
                  /\ user_data_pools' = Insert(user_data_pools, key, Len(pools) + 1)
                  /\ Return(c, call[c], RetOk(NoPool))
    /\ UNCHANGED <<max_conn, system_shared_pools, shared_lock, sweep, now>>
    /\ UNCHANGED <<sessionVars, configVars, queryVars>>

\* allocate_data_pool, lines 119-135: check again under the write lock, then
\* construct the pool and insert it; the guard is dropped on every way out.
allocate_data_pool_locked(c) ==
    /\ pc[c] = "alloc_locked"
    /\ user_lock.writer = c
    /\ user_lock' = [user_lock EXCEPT !.writer = NoOne]
    /\ LET key == <<call[c].user, call[c].pass, call[c].m>>
       IN  IF key \in DOMAIN user_data_pools
           THEN /\ Return(c, call[c], RetOk(NoPool))
                /\ UNCHANGED <<pools, user_data_pools>>
           ELSE \E budget \in Budgets :
                \E size \in get_real_max_connections(call[c].m, budget) :
                  IF size.panic
                  THEN /\ Return(c, call[c], RetErr("Panic"))
                       /\ UNCHANGED <<pools, user_data_pools>>
                  ELSE /\ pools' = PoolsAfterInsert(user_data_pools, key,
                                        new_with_user("user", key, size.size))
                       /\ user_data_pools' = Insert(user_data_pools, key, Len(pools) + 1)
                       /\ Return(c, call[c], RetOk(NoPool))
    /\ UNCHANGED <<max_conn, system_shared_pools, shared_lock, sweep, now>>
    /\ UNCHANGED <<sessionVars, configVars, queryVars>>

\* get_system_shared_pool, lines 139-143: read max-connections and look it
\* up under the read lock.
get_system_shared_pool_check(c) ==
    /\ CanCall(c)
    /\ CanConstruct
    /\ CanRead(shared_lock)
    /\ LET max_connections == max_conn
           a == [NoCall EXCEPT !.op = "get_system_shared_pool", !.m = max_connections]
       IN  IF max_connections \in DOMAIN system_shared_pools
           THEN Return(c, a, RetOk(system_shared_pools[max_connections]))
           ELSE Goto(c, "shared_wlock", a)
    /\ UNCHANGED <<max_conn, pools, user_data_pools, system_shared_pools,
                   user_lock, shared_lock, sweep, now>>
    /\ UNCHANGED <<sessionVars, configVars, queryVars>>

\* get_system_shared_pool, line 145: take the write lock.
get_system_shared_pool_write_lock(c) ==
    /\ pc[c] = "shared_wlock"
    /\ CanWrite(shared_lock)
    /\ shared_lock' = [shared_lock EXCEPT !.writer = c]
    /\ Goto(c, "shared_locked", call[c])
    /\ UNCHANGED <<max_conn, pools, user_data_pools, system_shared_pools,
                   user_lock, sweep, now>>
    /\ UNCHANGED <<sessionVars, configVars, queryVars>>

\* get_system_shared_pool, lines 147-163: look up again under the write lock,
\* then construct, insert and return the new pool.
get_system_shared_pool_locked(c) ==
    /\ pc[c] = "shared_locked"
    /\ shared_lock.writer = c
    /\ shared_lock' = [shared_lock EXCEPT !.writer = NoOne]
    /\ LET key == call[c].m
       IN  IF key \in DOMAIN system_shared_pools
           THEN /\ Return(c, call[c], RetOk(system_shared_pools[key]))
                /\ UNCHANGED <<pools, system_shared_pools>>
           ELSE \E budget \in Budgets :
                \E size \in get_real_max_connections(call[c].m, budget) :
                  IF size.panic
                  THEN /\ Return(c, call[c], RetErr("Panic"))
                       /\ UNCHANGED <<pools, system_shared_pools>>
                  ELSE /\ pools' = PoolsAfterInsert(system_shared_pools, key,
                                        new_with_user("shared", SharedKey(key), size.size))
                       /\ system_shared_pools' = Insert(system_shared_pools, key, Len(pools) + 1)
                       /\ Return(c, call[c], RetOk(Len(pools) + 1))
    /\ UNCHANGED <<max_conn, user_data_pools, user_lock, sweep, now>>
    /\ UNCHANGED <<sessionVars, configVars, queryVars>>

\* A report that stops after a registry's first entry.
report_first(map) == IF DOMAIN map = {} THEN <<>> ELSE <<SeqOfSet(Range(map))[1]>>

\* The statuses the inner report() pushes for one registry: one per entry.
report(map) == SeqOfSet(Range(map))

\* report_pool_stats, lines 206-211: the two fixed pools' statuses, then the
\* user registry's under its read lock.
report_pool_stats_user(c) ==
    /\ CanCall(c)
    /\ CanRead(user_lock)
    /\ Goto(c, "report_shared", [NoCall EXCEPT !.op = "report_pool_stats",
                   !.stats = <<SystemAuthPool, SystemRequestsPool>> \o report(user_data_pools)])
    /\ UNCHANGED <<max_conn, pools, user_data_pools, system_shared_pools,
                   user_lock, shared_lock, sweep, now>>
    /\ UNCHANGED <<sessionVars, configVars, queryVars>>

\* report_pool_stats, lines 212-214: the shared registry's statuses under its
\* read lock, and the return.
report_pool_stats_shared(c) ==
    /\ pc[c] = "report_shared"
    /\ CanRead(shared_lock)
    /\ Return(c, call[c], [kind |-> "Ok", pool |-> NoPool,
                           stats |-> call[c].stats \o report(system_shared_pools)])
    /\ UNCHANGED <<max_conn, pools, user_data_pools, system_shared_pools,
                   user_lock, shared_lock, sweep, now>>
    /\ UNCHANGED <<sessionVars, configVars, queryVars>>

\* The pools whose last_used is write-locked: acquire_connection holds the
\* write guard from line 148 until it returns.
Acquiring == {call[c].pool : c \in {d \in Callers : pc[d] = "acquiring"}}

\* A variant of acquire_connection that leaves last_used as it is.
acquire_connection_unstamped(c, p) ==
    /\ CanCall(c)
    /\ p \in handed
    /\ p \notin Acquiring
    /\ Goto(c, "acquiring", [NoCall EXCEPT !.op = "acquire_connection", !.pool = p])
    /\ UNCHANGED <<max_conn, pools, user_data_pools, system_shared_pools,
                   user_lock, shared_lock, sweep, now>>
    /\ UNCHANGED <<sessionVars, configVars, queryVars>>

\* ConnectionPool::acquire_connection, lines 148-149, on a pool that was
\* handed out (its Arc is held, whether or not the registry still holds it):
\* take the write lock on last_used and store the current time.
acquire_connection(c, p) ==
    /\ CanCall(c)
    /\ p \in handed
    /\ p \notin Acquiring
    /\ pools' = [pools EXCEPT ![p].last_used = now]
    /\ Goto(c, "acquiring", [NoCall EXCEPT !.op = "acquire_connection", !.pool = p])
    /\ UNCHANGED <<max_conn, user_data_pools, system_shared_pools,
                   user_lock, shared_lock, sweep, now>>
    /\ UNCHANGED <<sessionVars, configVars, queryVars>>

\* acquire_connection, line 150: pool.get() ends with a connection, or with
\* the wait-timeout error when none became available in time; the write
\* guard on last_used is dropped as the call returns.
acquire_connection_get(c, ok) ==
    /\ pc[c] = "acquiring"
    /\ Return(c, call[c], [kind |-> IF ok THEN "Ok" ELSE "AcquireTimeout",
                           pool |-> call[c].pool, stats |-> <<>>])
    /\ UNCHANGED <<max_conn, pools, user_data_pools, system_shared_pools,
                   user_lock, shared_lock, sweep, now>>
    /\ UNCHANGED <<sessionVars, configVars, queryVars>>

(***************************************************************************)
(* The unused-pool sweep: clean_unused_pools(max_age), run by the task     *)
(* that pool_manager.rs lines 218-237 spawn.  The inner clean() runs on    *)
(* the user registry, then on the shared registry.                         *)
(***************************************************************************)
Idle == [pc |-> "sleep", keys_to_remove |-> {}]

\* A variant of the age test that also takes a pool of exactly max_age.
UnusedFromMaxAge(p, max_age) == now - pools[p].last_used >= max_age

\* last_used().elapsed() > max_age
Unused(p, max_age) == now - pools[p].last_used > max_age

\* clean(), lines 171-179: under the read lock, collect the keys of the pools
\* last used more than max_age ago.
Scan(map, max_age) == {key \in DOMAIN map : Unused(map[key], max_age)}

\* Each last_used() of the scan waits for the read lock on the pool's
\* last_used, which an acquire_connection in progress holds for writing.
CanScan(map) == \A key \in DOMAIN map : map[key] \notin Acquiring

\* The sweep task as a holder of a registry lock.
Sweeper == "sweep"

\* clean(), line 173, one await at a time: the sweep takes the read lock of
\* the registry.
clean_scan_read_lock(from, to, lock) ==
    /\ sweep.pc = from
    /\ CanRead(lock)
    /\ lock' = [lock EXCEPT !.readers = @ \cup {Sweeper}]
    /\ sweep' = [pc |-> to, keys_to_remove |-> {}]
    /\ ret' = NoRet

\* clean(), lines 174-179, one await at a time: holding the read lock of the
\* registry, the sweep reads last_used() of each pool, waiting for the pools
\* whose last_used an acquire_connection in progress holds; the read lock is
\* dropped at the end of the block.
clean_scan_pools(from, to, lock, map) ==
    /\ sweep.pc = from
    /\ Sweeper \in lock.readers
    /\ CanScan(map)
    /\ lock' = [lock EXCEPT !.readers = @ \ {Sweeper}]
    /\ sweep' = [pc |-> to, keys_to_remove |-> Scan(map, SweepMaxAge)]
    /\ ret' = NoRet

clean_user_scan_read_lock ==
    /\ clean_scan_read_lock("sleep", "scanning_user", user_lock)
    /\ UNCHANGED <<max_conn, pools, user_data_pools, system_shared_pools,
                   shared_lock, pc, call, handed, now>>
    /\ UNCHANGED <<sessionVars, configVars, queryVars>>

clean_user_scan_pools ==
    /\ clean_scan_pools("scanning_user", "remove_user", user_lock, user_data_pools)
    /\ UNCHANGED <<max_conn, pools, user_data_pools, system_shared_pools,
                   shared_lock, pc, call, handed, now>>
    /\ UNCHANGED <<sessionVars, configVars, queryVars>>

clean_shared_scan_read_lock ==
    /\ clean_scan_read_lock("scan_shared", "scanning_shared", shared_lock)
    /\ UNCHANGED <<max_conn, pools, user_data_pools, system_shared_pools,
                   user_lock, pc, call, handed, now>>
    /\ UNCHANGED <<sessionVars, configVars, queryVars>>

clean_shared_scan_pools ==
    /\ clean_scan_pools("scanning_shared", "remove_shared", shared_lock, system_shared_pools)
    /\ UNCHANGED <<max_conn, pools, user_data_pools, system_shared_pools,
                   user_lock, pc, call, handed, now>>
    /\ UNCHANGED <<sessionVars, configVars, queryVars>>

\* HashMap::remove of every collected key that is still present.
RemoveKeys(map, keys) == [k \in (DOMAIN map) \ keys |-> map[k]]

PoolsAfterRemove(map, keys) ==
    [i \in DOMAIN pools |->
        IF \E k \in keys \cap DOMAIN map : map[k] = i
        THEN [pools[i] EXCEPT !.state = "removed"] ELSE pools[i]]

\* clean() on the user registry, lines 171-179.
clean_user_scan ==
    /\ sweep.pc = "sleep"
    /\ CanRead(user_lock)
    /\ CanScan(user_data_pools)
    /\ sweep' = [pc |-> "remove_user", keys_to_remove |-> Scan(user_data_pools, SweepMaxAge)]
    /\ ret' = NoRet
    /\ UNCHANGED <<max_conn, pools, user_data_pools, system_shared_pools,
                   user_lock, shared_lock, pc, call, handed, now>>
    /\ UNCHANGED <<sessionVars, configVars, queryVars>>

\* clean() on the user registry, lines 181-186: remove the collected keys
\* under the write lock.
clean_user_remove ==
    /\ sweep.pc = "remove_user"
    /\ CanWrite(user_lock)
    /\ user_data_pools' = RemoveKeys(user_data_pools, sweep.keys_to_remove)
    /\ pools' = PoolsAfterRemove(user_data_pools, sweep.keys_to_remove)
    /\ sweep' = [pc |-> "scan_shared", keys_to_remove |-> {}]
    /\ ret' = NoRet
    /\ UNCHANGED <<max_conn, system_shared_pools, user_lock, shared_lock,
                   pc, call, handed, now>>
    /\ UNCHANGED <<sessionVars, configVars, queryVars>>

\* clean() on the shared registry, lines 171-179.
clean_shared_scan ==
    /\ sweep.pc = "scan_shared"
    /\ CanRead(shared_lock)
    /\ CanScan(system_shared_pools)
    /\ sweep' = [pc |-> "remove_shared",
                 keys_to_remove |-> Scan(system_shared_pools, SweepMaxAge)]
    /\ ret' = NoRet
    /\ UNCHANGED <<max_conn, pools, user_data_pools, system_shared_pools,
                   user_lock, shared_lock, pc, call, handed, now>>
    /\ UNCHANGED <<sessionVars, configVars, queryVars>>

\* clean() on the shared registry, lines 181-186; clean_unused_pools returns
\* and the task sleeps until the next tick of its interval.
clean_shared_remove ==
    /\ sweep.pc = "remove_shared"
    /\ CanWrite(shared_lock)
    /\ system_shared_pools' = RemoveKeys(system_shared_pools, sweep.keys_to_remove)
    /\ pools' = PoolsAfterRemove(system_shared_pools, sweep.keys_to_remove)
    /\ sweep' = Idle
    /\ ret' = NoRet
    /\ UNCHANGED <<max_conn, user_data_pools, user_lock, shared_lock,
                   pc, call, handed, now>>
    /\ UNCHANGED <<sessionVars, configVars, queryVars>>

(***************************************************************************)
(* The environment: the configuration changes, time passes.                *)
(***************************************************************************)
\* The effective max-connections value changes (a reload of the dynamic
\* configuration; MaxConnectionConfig::set_max_conn in the tests).
set_max_conn(value) ==
    /\ value # max_conn
    /\ max_conn' = value
    /\ ret' = NoRet
    /\ UNCHANGED <<pools, user_data_pools, system_shared_pools,
                   user_lock, shared_lock, pc, call, handed, sweep, now>>
    /\ UNCHANGED <<sessionVars, configVars, queryVars>>

Tick ==
    /\ now < MaxTime
    /\ now' = now + 1
    /\ ret' = NoRet
    /\ UNCHANGED <<max_conn, pools, user_data_pools, system_shared_pools,
                   user_lock, shared_lock, pc, call, handed, sweep>>
    /\ UNCHANGED <<sessionVars, configVars, queryVars>>

(***************************************************************************)
(* Sessions: the request processors over the transaction store and the     *)
(* cursor store.  A client is one ConnectionContext handling one request   *)
(* at a time: transaction::handle first, then the request's processor.     *)
(* The stores, ConnectionContext and the data client follow the design     *)
(* document (sections 4.5, 4.6 and 5); the processors follow their code.   *)
(***************************************************************************)
NoConn == "noconn"
NoSession == "nosession"
\* connection_context.transaction: None, or Some((session_id, transaction_number))
NoTransaction == <<>>

\* request_info.transaction_info: None, auto-commit, or a transaction number.
NoInfo == [present |-> FALSE, auto_commit |-> FALSE, number |-> 0]
AutoCommit == [present |-> TRUE, auto_commit |-> TRUE, number |-> 0]
Infos == {NoInfo, AutoCommit} \cup
         {[present |-> TRUE, auto_commit |-> FALSE, number |-> n] : n \in 1..MaxTxnNumber}

\* RequestType values rejected inside a transaction (transaction.rs 30-36),
\* and those rejected there against a reserved database (46-56).
IndexRequests == {"ReIndex", "CreateIndex", "CreateIndexes", "DropIndexes"}
DataRequests == {"Aggregate", "FindAndModify", "Update", "Insert", "Count", "Distinct",
                 "Find", "GetMore"}
ReservedDbs == {"config", "admin", "local"}
RequestTypes == {"Find", "GetMore", "CommitTransaction", "AbortTransaction", "CreateIndexes"}

\* handle, lines 24-28 and 99-100: with no transaction info, or auto-commit,
\* handle clears connection_context.transaction and returns Ok(()) without
\* awaiting anything; the request goes straight on to its processor.
Untransacted(info) == ~info.present \/ info.auto_commit

\* The requests that come in a transaction, and the commit and abort commands
\* in any case.  A getMore or an index command appears where handle rejects
\* it; the reserved database where handle decides on it.
Requests ==
    {r \in [type : RequestTypes, info : Infos, session : Sessions \cup {NoSession},
            db : {"db", "admin"}] :
        /\ Untransacted(r.info) => r.type \in {"CommitTransaction", "AbortTransaction"}
        /\ Untransacted(r.info) => r.db = "db"
        /\ r.type = "GetMore" => r.db \in ReservedDbs
        /\ r.db \in ReservedDbs => r.type \in DataRequests
        /\ r.session = NoSession => r.info # AutoCommit}

\* A transaction store entry; state "absent" stands for no entry.
NoTransactionEntry == [state |-> "absent", number |-> 0, conn |-> NoConn, expired |-> FALSE]
\* A CursorStoreEntry; conn is NoConn for a stateless cursor.
NoCursor == [conn |-> NoConn, db |-> "-", coll |-> "-", timeout |-> "-", expired |-> FALSE]

IdleContext == [pc |-> "idle", type |-> "-", transaction |-> NoTransaction,
                db |-> "-", coll |-> "-", id |-> 0, conn |-> NoConn, entry |-> NoCursor]
NoReply == [op |-> "-", kind |-> "-"]

\* The connections the pool can hand out, and a connection's way back: the
\* pooled object returns to its pool when its last handle is dropped.
Available == {k \in Conns : idle[k] > 0}
Borrow(k) == [idle EXCEPT ![k] = @ - 1]
Release(k) == IF k = NoConn THEN idle ELSE [idle EXCEPT ![k] = @ + 1]
\* The connections of the cursors ids of store go back, one return per cursor.
ReleaseCursors(store, ids) ==
    [k \in Conns |-> idle[k] + Cardinality({id \in ids : store[id].conn = k})]

\* The request of type op that client c sent ends with this reply.
Respond(c, op, kind) ==
    /\ ctx' = [ctx EXCEPT ![c] = IdleContext]
    /\ reply' = [op |-> op, kind |-> kind]


(***************************************************************************)
(* TransactionStore (design 4.5): one entry per session id.                *)
(***************************************************************************)
StoreAsIs(result) ==
    [result |-> result, transactions |-> transactions, idle |-> idle, conn_open |-> conn_open]

\* create: a request of the transaction the session has Active joins it; a
\* Committed session answers with the already-committed condition; otherwise,
\* with no entry for the session, a connection is borrowed, BEGIN is issued
\* on it and the Active entry is stored.  An Active entry of another
\* transaction number has to be resolved first, and an Aborted one removed.
TransactionStore_create(session_id, transaction_number) ==
    LET t == transactions[session_id]
    IN  CASE t.state = "Committed" -> {StoreAsIs("TransactionCommitted")}
          [] t.state = "Aborted" -> {StoreAsIs("NoSuchTransaction")}
          [] t.state = "Active" ->
                IF t.number = transaction_number
                THEN {StoreAsIs("Ok")}
                ELSE {StoreAsIs("TransactionInProgress")}
          [] OTHER ->
                IF Available = {}
                THEN {StoreAsIs("PoolExhausted")}
                ELSE {[result |-> "Ok",
                       transactions |-> [transactions EXCEPT ![session_id] =
                            [state |-> "Active", number |-> transaction_number,
                             conn |-> k, expired |-> FALSE]],
                       idle |-> Borrow(k),
                       conn_open |-> [conn_open EXCEPT ![k] = session_id]] : k \in Available}

\* commit: COMMIT on the held connection, the connection goes back to its
\* pool, the entry becomes Committed; committing a Committed session is a
\* no-op.
TransactionStore_commit(session_id) ==
    LET t == transactions[session_id]
    IN  CASE t.state = "Active" ->
                [result |-> "Ok",
                 transactions |-> [transactions EXCEPT ![session_id] =
                      [t EXCEPT !.state = "Committed", !.conn = NoConn, !.expired = FALSE]],
                 idle |-> Release(t.conn),
                 conn_open |-> [conn_open EXCEPT ![t.conn] = NoSession]]
          [] t.state = "Committed" -> StoreAsIs("Ok")
          [] OTHER -> StoreAsIs("NoSuchTransaction")

\* abort: ROLLBACK on the held connection, the connection goes back, the
\* entry becomes Aborted; with no Active transaction it is an error.
TransactionStore_abort(session_id) ==
    LET t == transactions[session_id]
    IN  IF t.state = "Active"
        THEN [result |-> "Ok",
              transactions |-> [transactions EXCEPT ![session_id] =
                   [t EXCEPT !.state = "Aborted", !.conn = NoConn, !.expired = FALSE]],
              idle |-> Release(t.conn),
              conn_open |-> [conn_open EXCEPT ![t.conn] = NoSession]]
        ELSE StoreAsIs("TransactionNotFound")

\* The store changes as the outcome o of one of its operations says.
Apply(o) ==
    /\ transactions' = o.transactions
    /\ idle' = o.idle
    /\ conn_open' = o.conn_open

(***************************************************************************)
(* processor/transaction.rs                                                *)
(***************************************************************************)
\* A variant of handle that begins a transaction for a session whose entry
\* is in one of the states in from, whatever became of the entry before.
handle_beginning(c, request, from) ==
    /\ ctx[c].pc = "idle"
    /\ ~Untransacted(request.info)
    /\ request.type \notin IndexRequests
    /\ request.db \notin ReservedDbs
    /\ request.session # NoSession
    /\ transactions[request.session].state \in from
    /\ \E k \in Available :
          /\ transactions' = [transactions EXCEPT ![request.session] =
                [state |-> "Active", number |-> request.info.number,
                 conn |-> k, expired |-> FALSE]]
          /\ idle' = Borrow(k)
          /\ conn_open' = [conn_open EXCEPT ![k] = request.session]
    /\ ctx' = [ctx EXCEPT ![c] = [IdleContext EXCEPT !.pc = "handled",
                     !.type = request.type,
                     !.transaction = <<request.session, request.info.number>>]]
    /\ reply' = NoReply
    /\ UNCHANGED <<cursor_store, auth_state, poolVars, configVars, queryVars>>

\* A variant of handle that begins the transaction again after its commit.
handle_restarting(c, request) == handle_beginning(c, request, {"absent", "Committed"})

\* A variant of handle that begins a second transaction over an Active one.
handle_second_create(c, request) == handle_beginning(c, request, {"absent", "Active"})

\* A variant of handle that populates the transaction of the connection
\* context from the request before it looks at the request.
handle_populating(c, request) ==
    /\ ctx[c].pc = "idle"
    /\ Untransacted(request.info)
    /\ ctx' = [ctx EXCEPT ![c] = [IdleContext EXCEPT !.pc = "handled",
                     !.type = request.type,
                     !.transaction = <<request.session, request.info.number>>]]
    /\ reply' = NoReply
    /\ UNCHANGED <<transactions, idle, conn_open, cursor_store, auth_state, poolVars, configVars, queryVars>>

\* handle, lines 18-101.
handle(c, request) ==
    /\ ctx[c].pc = "idle"
    /\ LET handled == [IdleContext EXCEPT !.pc = "handled", !.type = request.type]
           Fail(kind) == /\ Respond(c, request.type, kind)
                         /\ UNCHANGED <<transactions, idle, conn_open>>
       IN  IF Untransacted(request.info)
           THEN /\ ctx' = [ctx EXCEPT ![c] = handled]
                /\ reply' = NoReply
                /\ UNCHANGED <<transactions, idle, conn_open>>
           ELSE IF request.type \in IndexRequests
           THEN Fail("OperationNotSupportedInTransaction")
           ELSE IF request.type \in DataRequests /\ request.db \in ReservedDbs
           THEN Fail("OperationNotSupportedInTransaction")
           ELSE IF request.session = NoSession
           THEN Fail("Panic")
           ELSE \E o \in TransactionStore_create(request.session, request.info.number) :
                  /\ Apply(o)
                  /\ IF o.result = "Ok"
                     THEN /\ ctx' = [ctx EXCEPT ![c] = [handled EXCEPT !.transaction =
                                        <<request.session, request.info.number>>]]
                          /\ reply' = NoReply
                     ELSE IF request.type = "CommitTransaction"
                             /\ o.result = "TransactionCommitted"
                     THEN /\ ctx' = [ctx EXCEPT ![c] = handled]
                          /\ reply' = NoReply
                     ELSE Respond(c, request.type, o.result)
    /\ UNCHANGED <<cursor_store, auth_state, poolVars, configVars, queryVars>>

\* A variant of process_commit that takes a request without a populated
\* transaction for an error, as process_abort does.
process_commit_requiring_transaction(c) ==
    /\ ctx[c].pc = "handled"
    /\ ctx[c].type = "CommitTransaction"
    /\ IF ctx[c].transaction # NoTransaction
       THEN LET o == TransactionStore_commit(ctx[c].transaction[1])
            IN  Apply(o) /\ Respond(c, "CommitTransaction", o.result)
       ELSE Respond(c, "CommitTransaction", "InternalError")
            /\ UNCHANGED <<transactions, idle, conn_open>>
    /\ UNCHANGED <<cursor_store, auth_state, poolVars, configVars, queryVars>>

\* process_commit, lines 103-109.
process_commit(c) ==
    /\ ctx[c].pc = "handled"
    /\ ctx[c].type = "CommitTransaction"
    /\ IF ctx[c].transaction # NoTransaction
       THEN LET o == TransactionStore_commit(ctx[c].transaction[1])
            IN  Apply(o) /\ Respond(c, "CommitTransaction", o.result)
       ELSE Respond(c, "CommitTransaction", "Ok")
            /\ UNCHANGED <<transactions, idle, conn_open>>
    /\ UNCHANGED <<cursor_store, auth_state, poolVars, configVars, queryVars>>

\* A variant of process_abort that answers Ok whatever abort returned.
process_abort_ignoring_result(c) ==
    /\ ctx[c].pc = "handled"
    /\ ctx[c].type = "AbortTransaction"
    /\ IF ctx[c].transaction = NoTransaction
       THEN Respond(c, "AbortTransaction", "InternalError")
            /\ UNCHANGED <<transactions, idle, conn_open>>
       ELSE LET o == TransactionStore_abort(ctx[c].transaction[1])
            IN  Apply(o) /\ Respond(c, "AbortTransaction", "Ok")
    /\ UNCHANGED <<cursor_store, auth_state, poolVars, configVars, queryVars>>

\* process_abort, lines 111-122.
process_abort(c) ==
    /\ ctx[c].pc = "handled"
    /\ ctx[c].type = "AbortTransaction"
    /\ IF ctx[c].transaction = NoTransaction
       THEN Respond(c, "AbortTransaction", "InternalError")
            /\ UNCHANGED <<transactions, idle, conn_open>>
       ELSE LET o == TransactionStore_abort(ctx[c].transaction[1])
            IN  Apply(o) /\ Respond(c, "AbortTransaction", o.result)
    /\ UNCHANGED <<cursor_store, auth_state, poolVars, configVars, queryVars>>

\* A find (or another data operation) inside the transaction runs on the
\* connection the transaction holds (design 4.5): it borrows none and stores
\* no connection.
process_find_in_transaction(c) ==
    /\ ctx[c].pc = "handled"
    /\ ctx[c].type \notin {"CommitTransaction", "AbortTransaction"}
    /\ ctx[c].transaction # NoTransaction
    /\ LET t == transactions[ctx[c].transaction[1]]
       IN  IF t.state = "Active" /\ t.number = ctx[c].transaction[2]
           THEN Respond(c, ctx[c].type, "Ok")
           ELSE Respond(c, ctx[c].type, "NoSuchTransaction")
    /\ UNCHANGED <<transactions, idle, conn_open, cursor_store, auth_state, poolVars, configVars, queryVars>>

\* A request that handle passed outside any transaction runs in its
\* processor, which is not followed further here.
process_untransacted(c) ==
    /\ ctx[c].pc = "handled"
    /\ ctx[c].type \notin {"CommitTransaction", "AbortTransaction"}
    /\ ctx[c].transaction = NoTransaction
    /\ Respond(c, ctx[c].type, "Ok")
    /\ UNCHANGED <<transactions, idle, conn_open, cursor_store, auth_state, poolVars, configVars, queryVars>>


(***************************************************************************)
(* CursorStore (design 4.6) and processor/cursor.rs                        *)
(***************************************************************************)
\* Cursor ids the backend may give a new cursor of the user: those no cursor
\* of the user has, stored or taken out by a getMore in progress.
FreshIds(username) ==
    {id \in CursorIds :
        /\ <<id, username>> \notin DOMAIN cursor_store
        /\ \A c \in Clients : ~(/\ ctx[c].pc = "got_cursor"
                                 /\ id = ctx[c].id
                                 /\ auth_state[c] = username)}

\* add_cursor: the entry is stored under (cursor id, username); a connection
\* supplied with it is the store's from then on.
add_cursor(id, username, entry) ==
    [key \in (DOMAIN cursor_store) \cup {<<id, username>>} |->
        IF key = <<id, username>> THEN entry ELSE cursor_store[key]]

\* Removal of the entries keys.
remove_cursors(keys) == [key \in (DOMAIN cursor_store) \ keys |-> cursor_store[key]]

\* A find on collection coll of database db outside a transaction borrows a pooled
\* connection for the request (design 4.6, 5) and executes on it.
process_find_pull_connection(c, db, coll) ==
    /\ ctx[c].pc = "idle"
    /\ IF Available = {}
       THEN Respond(c, "Find", "PoolExhausted") /\ UNCHANGED idle
       ELSE \E k \in Available :
              /\ idle' = Borrow(k)
              /\ ctx' = [ctx EXCEPT ![c] = [IdleContext EXCEPT !.pc = "executed",
                               !.type = "Find", !.db = db, !.coll = coll,
                               !.conn = k]]
              /\ reply' = NoReply
    /\ UNCHANGED <<transactions, conn_open, cursor_store, auth_state, poolVars, configVars, queryVars>>

\* A variant of save_cursor in which the request keeps its handle of the
\* connection it persists with the cursor.
save_cursor_keeping_connection(c, cursor, stateless_timeout) ==
    /\ ctx[c].pc = "executed"
    /\ cursor = "persist"
    /\ \E id \in FreshIds(auth_state[c]) :
          cursor_store' = add_cursor(id, auth_state[c],
              [conn |-> ctx[c].conn, db |-> ctx[c].db, coll |-> ctx[c].coll,
               timeout |-> "default", expired |-> FALSE])
    /\ ctx' = [ctx EXCEPT ![c] = [IdleContext EXCEPT !.conn = ctx[c].conn]]
    /\ reply' = [op |-> "Find", kind |-> "Ok"]
    /\ UNCHANGED <<idle, transactions, conn_open, auth_state, poolVars, configVars, queryVars>>

\* A variant of save_cursor that gives every cursor the stateless timeout
\* when that timeout is enabled, whether or not a connection is persisted.
save_cursor_timeout_for_all(c, cursor, stateless_timeout) ==
    /\ ctx[c].pc = "executed"
    /\ IF cursor = "none"
       THEN /\ idle' = Release(ctx[c].conn)
            /\ UNCHANGED cursor_store
       ELSE \E id \in FreshIds(auth_state[c]) :
              LET connection == IF cursor = "persist" THEN ctx[c].conn ELSE NoConn
                  cursor_timeout == IF stateless_timeout THEN "stateless" ELSE "default"
              IN  /\ cursor_store' = add_cursor(id, auth_state[c],
                        [conn |-> connection, db |-> ctx[c].db, coll |-> ctx[c].coll,
                         timeout |-> cursor_timeout, expired |-> FALSE])
                  /\ idle' = IF connection = NoConn THEN Release(ctx[c].conn) ELSE idle
    /\ Respond(c, "Find", "Ok")
    /\ UNCHANGED <<transactions, conn_open, auth_state, poolVars, configVars, queryVars>>

\* save_cursor, lines 22-50, on the response of the find: no cursor, a cursor
\* to persist with the connection, or a cursor without one.  A connection
\* that is not persisted is dropped here, which returns it to its pool.
save_cursor(c, cursor, stateless_timeout) ==
    /\ ctx[c].pc = "executed"
    /\ IF cursor = "none"
       THEN /\ idle' = Release(ctx[c].conn)
            /\ UNCHANGED cursor_store
       ELSE \E id \in FreshIds(auth_state[c]) :
              LET connection == IF cursor = "persist" THEN ctx[c].conn ELSE NoConn
                  cursor_timeout == IF stateless_timeout /\ connection = NoConn
                                    THEN "stateless" ELSE "default"
              IN  /\ cursor_store' = add_cursor(id, auth_state[c],
                        [conn |-> connection, db |-> ctx[c].db, coll |-> ctx[c].coll,
                         timeout |-> cursor_timeout, expired |-> FALSE])
                  /\ idle' = IF connection = NoConn THEN Release(ctx[c].conn) ELSE idle
    /\ Respond(c, "Find", "Ok")
    /\ UNCHANGED <<transactions, conn_open, auth_state, poolVars, configVars, queryVars>>

\* A variant of get_cursor that returns the entry and leaves it in the store.
process_get_more_get_cursor_peeking(c, id) ==
    /\ ctx[c].pc = "idle"
    /\ LET key == <<id, auth_state[c]>>
       IN  IF key \in DOMAIN cursor_store /\ ~cursor_store[key].expired
           THEN /\ ctx' = [ctx EXCEPT ![c] = [IdleContext EXCEPT !.pc = "got_cursor",
                                 !.type = "GetMore", !.id = id,
                                 !.entry = cursor_store[key],
                                 !.conn = cursor_store[key].conn]]
                /\ reply' = NoReply
           ELSE Respond(c, "GetMore", "CursorNotFound")
    /\ UNCHANGED <<cursor_store, idle, transactions, conn_open, auth_state, poolVars, configVars, queryVars>>

\* process_get_more, lines 121-149: get_cursor returns and removes the entry
\* under (id, username of the caller), or the request fails with
\* CursorNotFound (no entry under that key, or an expired one).
process_get_more_get_cursor(c, id) ==
    /\ ctx[c].pc = "idle"
    /\ LET key == <<id, auth_state[c]>>
       IN  IF key \in DOMAIN cursor_store /\ ~cursor_store[key].expired
           THEN /\ cursor_store' = remove_cursors({key})
                /\ ctx' = [ctx EXCEPT ![c] = [IdleContext EXCEPT !.pc = "got_cursor",
                                 !.type = "GetMore", !.id = id,
                                 !.entry = cursor_store[key],
                                 !.conn = cursor_store[key].conn]]
                /\ reply' = NoReply
           ELSE /\ Respond(c, "GetMore", "CursorNotFound")
                /\ UNCHANGED cursor_store
    /\ UNCHANGED <<idle, transactions, conn_open, auth_state, poolVars, configVars, queryVars>>

\* A variant of the rest of process_get_more that forgets the connection of
\* a cursor it does not store again, instead of dropping it.
process_get_more_execute_forgetting(c, result, stateless_timeout) ==
    /\ ctx[c].pc = "got_cursor"
    /\ result = "exhausted"
    /\ Respond(c, "GetMore", "Ok")
    /\ UNCHANGED <<idle, cursor_store, transactions, conn_open, auth_state, poolVars, configVars, queryVars>>

\* A variant of the rest of process_get_more that stores the cursor again
\* whenever the backend call succeeded, whether or not it gave a continuation.
process_get_more_execute_always_storing(c, result, stateless_timeout) ==
    /\ ctx[c].pc = "got_cursor"
    /\ ctx[c].conn = NoConn /\ Available = {} => result = "error"
    /\ LET id == ctx[c].id
           cursor_timeout == IF ~stateless_timeout THEN "default" ELSE ctx[c].entry.timeout
       IN  IF result # "error"
           THEN /\ cursor_store' = add_cursor(id, auth_state[c],
                      [ctx[c].entry EXCEPT !.timeout = cursor_timeout, !.expired = FALSE])
                /\ UNCHANGED idle
                /\ Respond(c, "GetMore", "Ok")
           ELSE /\ idle' = Release(ctx[c].conn)
                /\ UNCHANGED cursor_store
                /\ Respond(c, "GetMore", "BackendError")
    /\ UNCHANGED <<transactions, conn_open, auth_state, poolVars, configVars, queryVars>>

\* process_get_more, lines 151-196: the backend call fails, or returns the
\* last batch (no continuation), or returns a continuation, with which the
\* cursor is added again with its connection.  On the other two ways out the
\* cursor's connection is dropped, which returns it to its pool.  A cursor
\* without a connection executes on one borrowed for the call.
process_get_more_execute(c, result, stateless_timeout) ==
    /\ ctx[c].pc = "got_cursor"
    /\ ctx[c].conn = NoConn /\ Available = {} => result = "error"
    /\ LET id == ctx[c].id
           cursor_timeout == IF ~stateless_timeout THEN "default" ELSE ctx[c].entry.timeout
       IN  IF result = "more"
           THEN /\ cursor_store' = add_cursor(id, auth_state[c],
                      [ctx[c].entry EXCEPT !.timeout = cursor_timeout, !.expired = FALSE])
                /\ UNCHANGED idle
                /\ Respond(c, "GetMore", "Ok")
           ELSE /\ idle' = Release(ctx[c].conn)
                /\ UNCHANGED cursor_store
                /\ Respond(c, "GetMore", IF result = "error" THEN "BackendError" ELSE "Ok")
    /\ UNCHANGED <<transactions, conn_open, auth_state, poolVars, configVars, queryVars>>

\* A variant of process_kill_cursors that looks the ids up whoever owns them.
process_kill_cursors_of_any_user(c, cursor_ids, ok) ==
    /\ ctx[c].pc = "idle"
    /\ LET removed_cursors == {key \in DOMAIN cursor_store : key[1] \in cursor_ids}
       IN  /\ cursor_store' = remove_cursors(removed_cursors)
           /\ idle' = ReleaseCursors(cursor_store, removed_cursors)
           /\ removed_cursors = {} => ok
           /\ Respond(c, "KillCursors", IF ok THEN "Ok" ELSE "BackendError")
    /\ UNCHANGED <<transactions, conn_open, auth_state, poolVars, configVars, queryVars>>

\* kill_cursors: the requested ids the store has under username, and the
\* rest of them.
kill_cursors(username, cursor_ids) ==
    LET removed == {id \in cursor_ids : <<id, username>> \in DOMAIN cursor_store}
    IN  [removed_cursors |-> removed, missing_cursors |-> cursor_ids \ removed]

\* The response of killCursors, lines 98-113.
KillCursorsResponse(removed_cursors, missing_cursors) ==
    [op |-> "KillCursors", kind |-> "Ok",
     cursorsKilled |-> removed_cursors, cursorsNotFound |-> missing_cursors,
     cursorsAlive |-> {}, cursorsUnknown |-> {}]

\* A variant of process_kill_cursors that fails the whole request, and
\* removes nothing, when one of the ids is not in the store.
process_kill_cursors_all_or_nothing(c, cursor_ids, ok) ==
    /\ ctx[c].pc = "idle"
    /\ LET killed == kill_cursors(auth_state[c], cursor_ids)
           keys == {<<id, auth_state[c]>> : id \in killed.removed_cursors}
       IN  IF killed.missing_cursors # {}
           THEN /\ Respond(c, "KillCursors", "CursorNotFound")
                /\ UNCHANGED <<cursor_store, idle>>
           ELSE /\ cursor_store' = remove_cursors(keys)
                /\ idle' = ReleaseCursors(cursor_store, keys)
                /\ killed.removed_cursors = {} => ok
                /\ ctx' = [ctx EXCEPT ![c] = IdleContext]
                /\ reply' = IF ok
                            THEN KillCursorsResponse(killed.removed_cursors, {})
                            ELSE [op |-> "KillCursors", kind |-> "BackendError"]
    /\ UNCHANGED <<transactions, conn_open, auth_state, poolVars, configVars, queryVars>>

\* process_kill_cursors, lines 52-114: kill_cursors removes the ids the store
\* has under the caller's username (their connections go back to the pool)
\* and tells them from the missing ones; the backend is then told to close
\* the removed cursors, which may fail; the response lists both sets.
process_kill_cursors(c, cursor_ids, ok) ==
    /\ ctx[c].pc = "idle"
    /\ LET killed == kill_cursors(auth_state[c], cursor_ids)
           keys == {<<id, auth_state[c]>> : id \in killed.removed_cursors}
       IN  /\ cursor_store' = remove_cursors(keys)
           /\ idle' = ReleaseCursors(cursor_store, keys)
           /\ killed.removed_cursors = {} => ok
           /\ ctx' = [ctx EXCEPT ![c] = IdleContext]
           /\ reply' = IF ok
                       THEN KillCursorsResponse(killed.removed_cursors,
                                                killed.missing_cursors)
                       ELSE [op |-> "KillCursors", kind |-> "BackendError"]
    /\ UNCHANGED <<transactions, conn_open, auth_state, poolVars, configVars, queryVars>>

(***************************************************************************)
(* processor/data_description.rs                                           *)
(***************************************************************************)
\* A variant of the invalidation of process_drop_collection that goes by the
\* collection's name alone.
process_drop_collection_invalidate_by_name(c, db, coll) ==
    /\ ctx[c].pc = "idle"
    /\ LET dropped == {key \in DOMAIN cursor_store : cursor_store[key].coll = coll}
       IN  /\ cursor_store' = remove_cursors(dropped)
           /\ idle' = ReleaseCursors(cursor_store, dropped)
    /\ ctx' = [ctx EXCEPT ![c] = [IdleContext EXCEPT !.pc = "invalidated",
                     !.type = "DropCollection", !.db = db, !.coll = coll]]
    /\ reply' = NoReply
    /\ UNCHANGED <<transactions, conn_open, auth_state, poolVars, configVars, queryVars>>

\* process_drop_collection, lines 81-90: the cursors of the collection coll
\* of database db are invalidated, their connections released.
process_drop_collection_invalidate(c, db, coll) ==
    /\ ctx[c].pc = "idle"
    /\ LET dropped == {key \in DOMAIN cursor_store :
                          /\ cursor_store[key].db = db
                          /\ cursor_store[key].coll = coll}
       IN  /\ cursor_store' = remove_cursors(dropped)
           /\ idle' = ReleaseCursors(cursor_store, dropped)
    /\ ctx' = [ctx EXCEPT ![c] = [IdleContext EXCEPT !.pc = "invalidated",
                     !.type = "DropCollection", !.db = db, !.coll = coll]]
    /\ reply' = NoReply
    /\ UNCHANGED <<transactions, conn_open, auth_state, poolVars, configVars, queryVars>>

\* process_drop_database, lines 51-57: every cursor of the database db is
\* invalidated.
process_drop_database_invalidate(c, db) ==
    /\ ctx[c].pc = "idle"
    /\ LET dropped == {key \in DOMAIN cursor_store : cursor_store[key].db = db}
       IN  /\ cursor_store' = remove_cursors(dropped)
           /\ idle' = ReleaseCursors(cursor_store, dropped)
    /\ ctx' = [ctx EXCEPT ![c] = [IdleContext EXCEPT !.pc = "invalidated",
                     !.type = "DropDatabase", !.db = db]]
    /\ reply' = NoReply
    /\ UNCHANGED <<transactions, conn_open, auth_state, poolVars, configVars, queryVars>>

\* process_drop_collection, lines 92-106: the backend drops the collection.
process_drop_collection_execute(c, ok) ==
    /\ ctx[c].pc = "invalidated"
    /\ ctx[c].type = "DropCollection"
    /\ Respond(c, "DropCollection", IF ok THEN "Ok" ELSE "BackendError")
    /\ UNCHANGED <<idle, transactions, conn_open, cursor_store, auth_state, poolVars, configVars, queryVars>>

\* process_drop_database, lines 59-72: the backend drops the database.
process_drop_database_execute(c, ok) ==
    /\ ctx[c].pc = "invalidated"
    /\ ctx[c].type = "DropDatabase"
    /\ Respond(c, "DropDatabase", IF ok THEN "Ok" ELSE "BackendError")
    /\ UNCHANGED <<idle, transactions, conn_open, cursor_store, auth_state, poolVars, configVars, queryVars>>

(***************************************************************************)
(* Deadlines and the periodic sweeps (design 4.5, 4.6).                    *)
(***************************************************************************)
\* Time passes the deadline of the Active transaction of session s.
transaction_deadline_passes(s) ==
    /\ transactions[s].state = "Active"
    /\ ~transactions[s].expired
    /\ transactions' = [transactions EXCEPT ![s].expired = TRUE]
    /\ reply' = NoReply
    /\ UNCHANGED <<idle, conn_open, cursor_store, ctx, auth_state, poolVars, configVars, queryVars>>

\* A variant of the transaction sweep that removes the terminal entries and
\* passes over the expired ones.
transaction_sweep_terminal_only ==
    /\ \E s \in Sessions : transactions[s].state \in {"Committed", "Aborted"}
    /\ transactions' = [s \in Sessions |->
          IF transactions[s].state \in {"Committed", "Aborted"}
          THEN NoTransactionEntry ELSE transactions[s]]
    /\ reply' = NoReply
    /\ UNCHANGED <<idle, conn_open, cursor_store, ctx, auth_state, poolVars, configVars, queryVars>>

\* The transaction sweep: an expired Active transaction is rolled back, its
\* connection released and the entry left Aborted; an entry already terminal
\* is removed.
transaction_sweep ==
    /\ \E s \in Sessions : transactions[s].state \in {"Committed", "Aborted"}
                           \/ transactions[s].expired
    /\ LET Expired(s) == transactions[s].state = "Active" /\ transactions[s].expired
       IN  /\ transactions' = [s \in Sessions |->
                 IF Expired(s)
                 THEN [transactions[s] EXCEPT !.state = "Aborted", !.conn = NoConn,
                                              !.expired = FALSE]
                 ELSE IF transactions[s].state \in {"Committed", "Aborted"}
                 THEN NoTransactionEntry
                 ELSE transactions[s]]
           /\ idle' = [k \in Conns |-> idle[k] +
                 Cardinality({s \in Sessions : Expired(s) /\ transactions[s].conn = k})]
           /\ conn_open' = [k \in Conns |->
                 IF \E s \in Sessions : Expired(s) /\ transactions[s].conn = k
                 THEN NoSession ELSE conn_open[k]]
    /\ reply' = NoReply
    /\ UNCHANGED <<cursor_store, ctx, auth_state, poolVars, configVars, queryVars>>

\* Time passes the idle deadline of cursor id.
cursor_deadline_passes(key) ==
    /\ key \in DOMAIN cursor_store
    /\ ~cursor_store[key].expired
    /\ cursor_store' = [cursor_store EXCEPT ![key].expired = TRUE]
    /\ reply' = NoReply
    /\ UNCHANGED <<idle, transactions, conn_open, ctx, auth_state, poolVars, configVars, queryVars>>

\* The cursor sweep evicts the cursors past their deadline and releases the
\* connections they hold.
cursor_sweep ==
    /\ \E id \in DOMAIN cursor_store : cursor_store[id].expired
    /\ LET evicted == {id \in DOMAIN cursor_store : cursor_store[id].expired}
       IN  /\ cursor_store' = remove_cursors(evicted)
           /\ idle' = ReleaseCursors(cursor_store, evicted)
    /\ reply' = NoReply
    /\ UNCHANGED <<transactions, conn_open, ctx, auth_state, poolVars, configVars, queryVars>>

(***************************************************************************)
(* configuration/pg_configuration.rs: the dynamic configuration, its       *)
(* typed getters and the task that reloads it.                             *)
(***************************************************************************)
POSTGRES_RECOVERY_KEY == "IsPostgresInRecovery"

\* Option::None of a getter, and the failure of a parse.
None == "<none>"
NoParse == [ok |-> FALSE, value |-> 0]
Parsed(value) == [ok |-> TRUE, value |-> value]

\* str::parse::<bool>: only the exact words true and false parse.
ParseBool(v) ==
    CASE v = "true" -> Parsed(TRUE)
      [] v = "false" -> Parsed(FALSE)
      [] OTHER -> NoParse

\* str::parse::<i32>: a decimal number within the range of i32.
ParseI32(v) ==
    CASE v = "25" -> Parsed(25)
      [] v = "5" -> Parsed(5)
      [] v = "-1" -> Parsed(-1)
      [] OTHER -> NoParse

\* A u64 value, hi * 10^9 + lo (values above the range of i32 included).
U64(hi, lo) == [hi |-> hi, lo |-> lo]

\* str::parse::<u64>: a decimal number that is not negative, within u64.
ParseU64(v) ==
    CASE v = "25" -> Parsed(U64(0, 25))
      [] v = "5" -> Parsed(U64(0, 5))
      [] v = "3000000000" -> Parsed(U64(3, 0))
      [] OTHER -> NoParse

\* str::to_lowercase on the words a host file may hold.
ToLowercase(s) ==
    CASE s = "True" -> "true"
      [] s = "False" -> "false"
      [] OTHER -> s

\* Strings that are cut at prefixes are taken apart into pieces: a name that
\* starts with prefixes is the sequence of these and of its rest, any other
\* name is one piece.
PrefixedNames == {"documentdb.readOnly", "documentdb.simulateReadReplica",
                  "documentdb.gateway.readOnly", "gateway.readOnly"}
Pieces(name) ==
    CASE name = "documentdb.readOnly" -> <<"documentdb.", "readOnly">>
      [] name = "documentdb.simulateReadReplica" -> <<"documentdb.", "simulateReadReplica">>
      [] name = "documentdb.gateway.readOnly" -> <<"documentdb.", "gateway.", "readOnly">>
      [] name = "gateway.readOnly" -> <<"gateway.", "readOnly">>
      [] OTHER -> <<name>>
\* The string of a sequence of pieces.
Joined(pieces) ==
    CASE Len(pieces) = 0 -> ""
      [] Len(pieces) = 1 -> pieces[1]
      [] OTHER -> CHOOSE name \in PrefixedNames : Pieces(name) = pieces

\* The prefixes the store is configured with (settings_prefixes), in order.
settings_prefixes == << <<"documentdb.">>, <<"gateway.">> >>

\* str::starts_with, and the slice after the first n pieces.
starts_with(key, prefix) ==
    Len(prefix) <= Len(key) /\ SubSeq(key, 1, Len(prefix)) = prefix
SliceFrom(key, n) == SubSeq(key, n + 1, Len(key))

\* The loop over the prefixes without its break: every prefix that the key
\* starts with when its turn comes is cut off.
RECURSIVE StripEvery(_, _)
StripEvery(key, prefixes) ==
    IF prefixes = << >> THEN key
    ELSE IF starts_with(key, Head(prefixes))
         THEN StripEvery(SliceFrom(key, Len(Head(prefixes))), Tail(prefixes))
         ELSE StripEvery(key, Tail(prefixes))

StripPrefix_every_prefix(name) == Joined(StripEvery(Pieces(name), settings_prefixes))

\* The loop over the prefixes, lines 76-81: the first prefix the key starts
\* with is cut off and the loop ends.
RECURSIVE StripFirst(_, _)
StripFirst(key, prefixes) ==
    IF prefixes = << >> THEN key
    ELSE IF starts_with(key, Head(prefixes))
         THEN SliceFrom(key, Len(Head(prefixes)))
         ELSE StripFirst(key, Tail(prefixes))

\* The name of a setting without the first of the settings prefixes it
\* starts with (lines 76-81).
StripPrefix(name) == Joined(StripFirst(Pieces(name), settings_prefixes))

\* on and off are stored as true and false (lines 83-88).
Normalise(setting) ==
    CASE setting = "on" -> "true"
      [] setting = "off" -> "false"
      [] OTHER -> setting

\* The loop over the rows of the settings dump, lines 73-90.
RECURSIVE InsertRows(_, _)
InsertRows(configs, rows) ==
    IF rows = << >>
    THEN configs
    ELSE InsertRows(Insert(configs, StripPrefix(Head(rows)[1]), Normalise(Head(rows)[2])),
                    Tail(rows))

\* What reading the host configuration file gives: no file, a file that is
\* not the expected JSON, or the two fields (a field the file leaves out is
\* the empty string).
HostFileMissing == [state |-> "missing", is_primary |-> "", send_shutdown_responses |-> ""]
HostFileUnparsable == [state |-> "unparsable", is_primary |-> "", send_shutdown_responses |-> ""]
HostFile(is_primary, send_shutdown_responses) ==
    [state |-> "parsed", is_primary |-> is_primary,
     send_shutdown_responses |-> send_shutdown_responses]

\* What the settings dump gives: its rows (name, setting), or an error.
Dump(rows) == [ok |-> TRUE, rows |-> rows]
DumpError == [ok |-> FALSE, rows |-> << >>]

\* What the recovery probe gives: a row with the flag, no row, or an error.
InRecovery == "t"
NotInRecovery == "f"
NoRow == "norow"
ProbeError == "error"

LoadError == [ok |-> FALSE, configs |-> << >>]

\* A variant of load_configurations in which a host file that cannot be
\* loaded fails the load.
load_configurations_requiring_host_file(host, dump, recovery) ==
    IF host.state # "parsed" \/ ~dump.ok \/ recovery = ProbeError
    THEN LoadError
    ELSE [ok |-> TRUE,
          configs |->
             Insert(InsertRows(Insert(Insert(<< >>, "IsPrimary", ToLowercase(host.is_primary)),
                                      "SendShutdownResponses",
                                      ToLowercase(host.send_shutdown_responses)),
                               dump.rows),
                    POSTGRES_RECOVERY_KEY,
                    IF recovery = InRecovery THEN "true" ELSE "false")]

\* load_configurations, lines 46-106: the host file's two keys if the file
\* loads, then the rows of the settings dump, then the recovery flag; the
\* failure of either query fails the load.
load_configurations(host, dump, recovery) ==
    LET host_configs ==
            IF host.state = "parsed"
            THEN Insert(Insert(<< >>, "IsPrimary", ToLowercase(host.is_primary)),
                        "SendShutdownResponses",
                        ToLowercase(host.send_shutdown_responses))
            ELSE << >>
    IN  IF ~dump.ok \/ recovery = ProbeError
        THEN LoadError
        ELSE [ok |-> TRUE,
              configs |-> Insert(InsertRows(host_configs, dump.rows),
                                 POSTGRES_RECOVERY_KEY,
                                 IF recovery = InRecovery THEN "true" ELSE "false")]

\* The snapshots that the loads of these inputs give.
Snapshots(hosts, dumps, recoveries) ==
    {load_configurations(host, dump, recovery).configs :
        host \in hosts, dump \in dumps \ {DumpError},
        recovery \in recoveries \ {ProbeError}}

NoGot == [op |-> "-", key |-> "-", value |-> None]
Got(op, key, value) == [op |-> op, key |-> key, value |-> value]

RefreshSleeping == [pc |-> "sleep", new_config |-> << >>, outcome |-> "-"]

\* What get_bool (lines 224-233) and equals_value (lines 257-266) give when
\* the mapping is configs.
get_bool_of(configs, key, default) ==
    IF key \in DOMAIN configs
    THEN (IF ParseBool(configs[key]).ok THEN ParseBool(configs[key]).value ELSE default)
    ELSE default

\* What get_i32 (lines 235-244) gives when the mapping is configs.
get_i32_of(configs, key, default) ==
    IF key \in DOMAIN configs
    THEN (IF ParseI32(configs[key]).ok THEN ParseI32(configs[key]).value ELSE default)
    ELSE default

equals_value_of(configs, key, value) ==
    IF key \in DOMAIN configs THEN configs[key] = value ELSE FALSE

\* No derived accessor is in progress.  While one is, and after it until the
\* next one begins, seen holds every mapping that was the configuration at
\* some time between the call and its return.
NoAccessor == [pc |-> "idle", seen |-> {}]
LivedThrough(configs) ==
    IF accessor.pc = "idle" THEN accessor
    ELSE [accessor EXCEPT !.seen = @ \cup {configs}]

\* The getters, lines 220-266: one read of the mapping under its read lock.
get_str(key) ==
    /\ got' = Got("get_str", key, IF key \in DOMAIN values THEN values[key] ELSE None)
    /\ UNCHANGED <<values, last_update_at, refresh, accessor>>
    /\ UNCHANGED <<poolVars, sessionVars, queryVars>>

\* A variant of get_bool that returns false for a value that does not parse.
get_bool_false_on_failure(key, default) ==
    /\ got' = Got("get_bool", key,
                  IF key \in DOMAIN values
                  THEN (IF ParseBool(values[key]).ok
                        THEN ParseBool(values[key]).value ELSE FALSE)
                  ELSE default)
    /\ UNCHANGED <<values, last_update_at, refresh, accessor>>
    /\ UNCHANGED <<poolVars, sessionVars, queryVars>>

get_bool(key, default) ==
    /\ got' = Got("get_bool", key, get_bool_of(values, key, default))
    /\ UNCHANGED <<values, last_update_at, refresh, accessor>>
    /\ UNCHANGED <<poolVars, sessionVars, queryVars>>

get_i32(key, default) ==
    /\ got' = Got("get_i32", key, get_i32_of(values, key, default))
    /\ UNCHANGED <<values, last_update_at, refresh, accessor>>
    /\ UNCHANGED <<poolVars, sessionVars, queryVars>>

get_u64(key, default) ==
    /\ got' = Got("get_u64", key,
                  IF key \in DOMAIN values
                  THEN (IF ParseU64(values[key]).ok
                        THEN ParseU64(values[key]).value ELSE default)
                  ELSE default)
    /\ UNCHANGED <<values, last_update_at, refresh, accessor>>
    /\ UNCHANGED <<poolVars, sessionVars, queryVars>>

equals_value(key, value) ==
    /\ got' = Got("equals_value", key, equals_value_of(values, key, value))
    /\ UNCHANGED <<values, last_update_at, refresh, accessor>>
    /\ UNCHANGED <<poolVars, sessionVars, queryVars>>

\* last_update_at, lines 191-193.
get_last_update_at ==
    /\ got' = Got("last_update_at", "-", last_update_at)
    /\ UNCHANGED <<values, last_update_at, refresh, accessor>>
    /\ UNCHANGED <<poolVars, sessionVars, queryVars>>

\* max_connections that hands on what get_i32 gave, a negative value too.
max_connections_of_any_sign(configs) == get_i32_of(configs, "max_connections", -1)

\* PgConfiguration::max_connections, lines 277-287, on the mapping configs:
\* a negative value, the default -1 of a missing or unparsable one included,
\* gives 25; any other is cast to usize, which keeps it.
max_connections_of(configs) ==
    LET n == get_i32_of(configs, "max_connections", -1)
    IN  IF n < 0 THEN 25 ELSE n

max_connections ==
    /\ got' = Got("max_connections", "-", max_connections_of(values))
    /\ UNCHANGED <<values, last_update_at, refresh, accessor>>
    /\ UNCHANGED <<poolVars, sessionVars, queryVars>>

\* DynamicConfiguration::is_postgres_writable (dynamic.rs 51-53): one read.
is_postgres_writable ==
    /\ accessor.pc = "idle"
    /\ got' = Got("is_postgres_writable", "-", ~get_bool_of(values, POSTGRES_RECOVERY_KEY, FALSE))
    /\ UNCHANGED <<values, last_update_at, refresh, accessor>>
    /\ UNCHANGED <<poolVars, sessionVars, queryVars>>

\* The accessor returns value.
ReturnOfAccessor(op, value) ==
    /\ got' = Got(op, "-", value)
    /\ accessor' = [accessor EXCEPT !.pc = "idle"]

\* DynamicConfiguration::is_replica_cluster (dynamic.rs 59-65), one await at
\* a time.  Line 60: the in-recovery flag is read; false skips the second
\* operand of &&.
is_replica_cluster_recovery ==
    /\ accessor.pc = "idle"
    /\ accessor' = [pc |-> IF get_bool_of(values, POSTGRES_RECOVERY_KEY, FALSE)
                           THEN "use_secondary_nodes" ELSE "simulate",
                    seen |-> {values}]
    /\ got' = NoGot
    /\ UNCHANGED <<values, last_update_at, refresh>>
    /\ UNCHANGED <<poolVars, sessionVars, queryVars>>

\* Lines 61-63: citus.use_secondary_nodes is compared with always; true ends
\* the || with true.
is_replica_cluster_use_secondary_nodes ==
    /\ accessor.pc = "use_secondary_nodes"
    /\ IF equals_value_of(values, "citus.use_secondary_nodes", "always")
       THEN ReturnOfAccessor("is_replica_cluster", TRUE)
       ELSE /\ accessor' = [accessor EXCEPT !.pc = "simulate"]
            /\ got' = NoGot
    /\ UNCHANGED <<values, last_update_at, refresh>>
    /\ UNCHANGED <<poolVars, sessionVars, queryVars>>

\* Line 64: simulateReadReplica is read and is the result.
is_replica_cluster_simulate ==
    /\ accessor.pc = "simulate"
    /\ ReturnOfAccessor("is_replica_cluster", get_bool_of(values, "simulateReadReplica", FALSE))
    /\ UNCHANGED <<values, last_update_at, refresh>>
    /\ UNCHANGED <<poolVars, sessionVars, queryVars>>

\* The refresh task, lines 133-157: at a tick of its interval it acquires a
\* connection of the system requests pool; a failure is logged and the task
\* waits for the next tick.
refresh_acquire_connection(ok) ==
    /\ refresh.pc = "sleep"
    /\ refresh' = IF ok
                  THEN [RefreshSleeping EXCEPT !.pc = "connected"]
                  ELSE [RefreshSleeping EXCEPT !.outcome = "acquire_failed"]
    /\ got' = NoGot
    /\ UNCHANGED accessor
    /\ UNCHANGED <<values, last_update_at>>
    /\ UNCHANGED <<poolVars, sessionVars, queryVars>>

\* A variant of the load step of the reload that stores the host file's keys
\* before the queries run.
reload_load_storing_early(host, dump, recovery) ==
    /\ refresh.pc = "connected"
    /\ LET loaded == load_configurations(host, dump, recovery)
           early == IF host.state = "parsed"
                    THEN Insert(Insert(values, "IsPrimary", ToLowercase(host.is_primary)),
                                "SendShutdownResponses",
                                ToLowercase(host.send_shutdown_responses))
                    ELSE values
       IN  /\ values' = early
           /\ refresh' = IF loaded.ok
                         THEN [RefreshSleeping EXCEPT !.pc = "loaded",
                                                      !.new_config = loaded.configs]
                         ELSE [RefreshSleeping EXCEPT !.outcome = "reload_failed"]
    /\ got' = NoGot
    /\ UNCHANGED accessor
    /\ UNCHANGED last_update_at
    /\ UNCHANGED <<poolVars, sessionVars, queryVars>>

\* reload_configuration_with_connection, lines 196-202: the load builds a
\* new mapping of its own; if it fails the error is logged and returned, and
\* the task, which logs it again (144-149), waits for the next tick.
reload_load(host, dump, recovery) ==
    /\ refresh.pc = "connected"
    /\ LET loaded == load_configurations(host, dump, recovery)
       IN  refresh' = IF loaded.ok
                      THEN [RefreshSleeping EXCEPT !.pc = "loaded",
                                                   !.new_config = loaded.configs]
                      ELSE [RefreshSleeping EXCEPT !.outcome = "reload_failed"]
    /\ got' = NoGot
    /\ UNCHANGED accessor
    /\ UNCHANGED <<values, last_update_at>>
    /\ UNCHANGED <<poolVars, sessionVars, queryVars>>

\* A variant of the store that adds the new mapping's entries to the old.
reload_store_values_merging ==
    /\ refresh.pc = "loaded"
    /\ values' = [k \in (DOMAIN values) \cup (DOMAIN refresh.new_config) |->
                     IF k \in DOMAIN refresh.new_config
                     THEN refresh.new_config[k] ELSE values[k]]
    /\ refresh' = [refresh EXCEPT !.pc = "stored"]
    /\ got' = NoGot
    /\ accessor' = LivedThrough(values')
    /\ UNCHANGED last_update_at
    /\ UNCHANGED <<poolVars, sessionVars, queryVars>>

\* Lines 204-207: under the write lock the mapping is replaced by the new one.
reload_store_values ==
    /\ refresh.pc = "loaded"
    /\ values' = refresh.new_config
    /\ refresh' = [refresh EXCEPT !.pc = "stored"]
    /\ got' = NoGot
    /\ accessor' = LivedThrough(values')
    /\ UNCHANGED last_update_at
    /\ UNCHANGED <<poolVars, sessionVars, queryVars>>

\* Lines 209-214: the time of the last update is set, and the reload returns.
reload_store_last_update ==
    /\ refresh.pc = "stored"
    /\ last_update_at' = now
    /\ refresh' = [RefreshSleeping EXCEPT !.outcome = "reloaded"]
    /\ got' = NoGot
    /\ UNCHANGED accessor
    /\ UNCHANGED values
    /\ UNCHANGED <<poolVars, sessionVars, queryVars>>

\* PgConfiguration::new, lines 161-189: the first load, which must succeed.
ConfigStart(hosts, dumps, recoveries) ==
    /\ values \in Snapshots(hosts, dumps, recoveries)
    /\ last_update_at = 0
    /\ refresh = RefreshSleeping
    /\ got = NoGot
    /\ accessor = NoAccessor

\* Bounded inputs of the loads: host files, settings dumps of at most MaxRows
\* rows, and the outcomes of the recovery probe.
HostFiles == {HostFileMissing, HostFileUnparsable, HostFile("True", "")}
SettingNames == {"max_connections", "documentdb.readOnly"}
Dumps(settings) ==
    {DumpError} \cup
    {Dump(rows) : rows \in UNION {[1..n -> SettingNames \X settings] : n \in 0..MaxRows}}
Probes == {InRecovery, NotInRecovery, NoRow, ProbeError}
\* The settings the reloads find, and the wider choice the getters are read on.
ReloadSettings == {"on", "25"}
GetterSettings == {"on", "off", "25", "-1", "3000000000"}
\* The keys the getters are asked for: those a load can store and one more.
ConfigKeys == {"IsPrimary", "SendShutdownResponses", "max_connections", "readOnly",
               POSTGRES_RECOVERY_KEY, "enableVerboseLoggingGateway"}

\* The configuration outside the specifications it is the subject of.
ConfigAtRest == ConfigStart({HostFileMissing}, {Dump(<< >>)}, {NotInRecovery})

(***************************************************************************)
(* postgres/connection.rs: Connection::query and the statements it sends   *)
(* to the backend session of its pooled connection.                        *)
(***************************************************************************)
\* Duration::from_secs(120).as_millis(), the default statement timeout.
DefaultTimeoutMs == 120000
\* max_time_ms of the callers.
MaxTimeMsValues == {500, 30000}
NoTimeout == [timeout_type |-> "-", max_time_ms |-> 0]
\* Timeout::command and Timeout::transaction, lines 44-58.
Timeouts == {NoTimeout} \cup [timeout_type : {"Command", "Transaction"},
                              max_time_ms : MaxTimeMsValues]

\* The statements.
Statement(text, ms) == [text |-> text, ms |-> ms]
Begin == Statement("BEGIN", 0)
Commit == Statement("COMMIT", 0)
Rollback == Statement("ROLLBACK", 0)
TheQuery == Statement("query", 0)
SetLocal(ms) == Statement("set local statement_timeout to", ms)
SetSession(ms) == Statement("set statement_timeout to", ms)

\* The backend session after it has run the statement: a transaction is
\* open from BEGIN to COMMIT or ROLLBACK, a local timeout lasts as long as
\* the transaction it is set in, a session timeout until it is set again.
Run(statement) ==
    CASE statement = Begin -> [backend EXCEPT !.open = TRUE]
      [] statement \in {Commit, Rollback} ->
            [backend EXCEPT !.open = FALSE, !.local_timeout = 0]
      [] statement.text = "set local statement_timeout to" ->
            IF backend.open
            THEN [backend EXCEPT !.local_timeout = statement.ms]
            ELSE backend
      [] statement.text = "set statement_timeout to" ->
            [backend EXCEPT !.session_timeout = statement.ms]
      [] OTHER -> backend

NoCallOfQuery == [pc |-> "idle", timeout |-> NoTimeout, results |-> "-"]
NoQueryResult == [kind |-> "-", of |-> "-", timeout |-> NoTimeout]

\* The statement is sent as part of the call in progress; it succeeds, with
\* its effect on the session, or fails.  The trace keeps both.
Send(statement, ok) ==
    /\ issued' = Append(issued, [statement |-> statement, ok |-> ok])
    /\ backend' = IF ok THEN Run(statement) ELSE backend

\* The call returns the rows, or the error of the statement named.
ReturnOfQuery(kind, of) ==
    /\ query_call' = NoCallOfQuery
    /\ query_result' = [kind |-> kind, of |-> of, timeout |-> query_call.timeout]

\* request_tracker.record_duration(kind, start): the interval of the phase is
\* recorded if the call reaches the line that records it.
Track(kind, reached) ==
    request_tracker' = IF reached THEN Append(request_tracker, kind) ELSE request_tracker

\* The call goes on at pc.
QueryGoto(pc_) ==
    /\ query_call' = [query_call EXCEPT !.pc = pc_]
    /\ query_result' = NoQueryResult

\* The transaction store begins a transaction on the connection and wraps it
\* with in_transaction set (Connection::new, lines 214-219; design 4.5).
ambient_transaction_begins ==
    /\ query_call.pc = "idle"
    /\ ~in_transaction
    /\ in_transaction' = TRUE
    /\ backend' = [backend EXCEPT !.open = TRUE]
    /\ issued' = << >>
    /\ request_tracker' = << >>
    /\ query_result' = NoQueryResult
    /\ UNCHANGED query_call
    /\ UNCHANGED <<poolVars, sessionVars, configVars>>

\* The transaction ends (commit or abort by the store).
ambient_transaction_ends ==
    /\ query_call.pc = "idle"
    /\ in_transaction
    /\ in_transaction' = FALSE
    /\ backend' = [backend EXCEPT !.open = FALSE, !.local_timeout = 0]
    /\ issued' = << >>
    /\ request_tracker' = << >>
    /\ query_result' = NoQueryResult
    /\ UNCHANGED query_call
    /\ UNCHANGED <<poolVars, sessionVars, configVars>>

\* A variant of the match of query that looks at the kind of the timeout
\* before it looks at in_transaction.
query_kind_first(timeout) ==
    /\ query_call.pc = "idle"
    /\ query_call' = [NoCallOfQuery EXCEPT
                        !.timeout = timeout,
                        !.pc = CASE timeout = NoTimeout -> "query"
                                 [] timeout.timeout_type = "Transaction" -> "begin"
                                 [] timeout.timeout_type = "Command" -> "set"
                                 [] OTHER -> "set_local_in_transaction"]
    /\ issued' = << >>
    /\ request_tracker' = << >>
    /\ query_result' = NoQueryResult
    /\ UNCHANGED <<backend, in_transaction>>
    /\ UNCHANGED <<poolVars, sessionVars, configVars>>

\* query, lines 74-86, 114-117, 151-154, 182: the match on the timeout and
\* on in_transaction chooses one of four ways.
query(timeout) ==
    /\ query_call.pc = "idle"
    /\ query_call' = [NoCallOfQuery EXCEPT
                        !.timeout = timeout,
                        !.pc = CASE timeout # NoTimeout /\ in_transaction ->
                                        "set_local_in_transaction"
                                 [] timeout.timeout_type = "Transaction" -> "begin"
                                 [] timeout.timeout_type = "Command" -> "set"
                                 [] OTHER -> "query"]
    /\ issued' = << >>
    /\ request_tracker' = << >>
    /\ query_result' = NoQueryResult
    /\ UNCHANGED <<backend, in_transaction>>
    /\ UNCHANGED <<poolVars, sessionVars, configVars>>

\* Lines 87-94: the transaction-local timeout; its error ends the call.
query_in_transaction_set_local(ok) ==
    /\ query_call.pc = "set_local_in_transaction"
    /\ Send(SetLocal(query_call.timeout.max_time_ms), ok)
    /\ Track("PostgresSetStatementTimeout", ok)
    /\ IF ok THEN QueryGoto("query_in_transaction")
             ELSE ReturnOfQuery("Err", "set local")
    /\ UNCHANGED in_transaction
    /\ UNCHANGED <<poolVars, sessionVars, configVars>>

\* A variant of the in-transaction way that returns the query's error
\* before it restores the timeout.
query_in_transaction_query_returning_early(ok) ==
    /\ query_call.pc = "query_in_transaction"
    /\ Send(TheQuery, ok)
    /\ Track("ProcessRequest", TRUE)
    /\ IF ok
       THEN /\ query_call' = [query_call EXCEPT !.pc = "restore_in_transaction",
                                                !.results = "rows"]
            /\ query_result' = NoQueryResult
       ELSE ReturnOfQuery("Err", "query")
    /\ UNCHANGED in_transaction
    /\ UNCHANGED <<poolVars, sessionVars, configVars>>

\* Lines 96-98: the query; its result is kept.
query_in_transaction_query(ok) ==
    /\ query_call.pc = "query_in_transaction"
    /\ Send(TheQuery, ok)
    /\ Track("ProcessRequest", TRUE)
    /\ query_call' = [query_call EXCEPT !.pc = "restore_in_transaction",
                                        !.results = IF ok THEN "rows" ELSE "error"]
    /\ query_result' = NoQueryResult
    /\ UNCHANGED in_transaction
    /\ UNCHANGED <<poolVars, sessionVars, configVars>>

\* Lines 100-112: the default timeout is restored, whatever the query gave;
\* the error of the restore comes before the result of the query.
query_in_transaction_restore(ok) ==
    /\ query_call.pc = "restore_in_transaction"
    /\ Send(SetLocal(DefaultTimeoutMs), ok)
    /\ Track("PostgresSetStatementTimeout", ok)
    /\ IF ~ok THEN ReturnOfQuery("Err", "restore")
       ELSE IF query_call.results = "rows" THEN ReturnOfQuery("Ok", "query")
       ELSE ReturnOfQuery("Err", "query")
    /\ UNCHANGED in_transaction
    /\ UNCHANGED <<poolVars, sessionVars, configVars>>

\* Lines 118-123: BEGIN.
query_transaction_begin(ok) ==
    /\ query_call.pc = "begin"
    /\ Send(Begin, ok)
    /\ Track("PostgresBeginTransaction", ok)
    /\ IF ok THEN QueryGoto("set_local") ELSE ReturnOfQuery("Err", "BEGIN")
    /\ UNCHANGED in_transaction
    /\ UNCHANGED <<poolVars, sessionVars, configVars>>

\* Lines 125-132: the transaction-local timeout.
query_transaction_set_local(ok) ==
    /\ query_call.pc = "set_local"
    /\ Send(SetLocal(query_call.timeout.max_time_ms), ok)
    /\ Track("PostgresSetStatementTimeout", ok)
    /\ IF ok THEN QueryGoto("query_transaction") ELSE ReturnOfQuery("Err", "set local")
    /\ UNCHANGED in_transaction
    /\ UNCHANGED <<poolVars, sessionVars, configVars>>

\* A variant of the query of the transaction way that goes on to COMMIT
\* after a query that failed.
query_transaction_query_committing(ok) ==
    /\ query_call.pc = "query_transaction"
    /\ Send(TheQuery, ok)
    /\ Track("ProcessRequest", ok)
    /\ query_call' = [query_call EXCEPT !.pc = "commit",
                                        !.results = IF ok THEN "rows" ELSE "error"]
    /\ query_result' = NoQueryResult
    /\ UNCHANGED in_transaction
    /\ UNCHANGED <<poolVars, sessionVars, configVars>>

\* Lines 134-137: the query.
query_transaction_query(ok) ==
    /\ query_call.pc = "query_transaction"
    /\ Send(TheQuery, ok)
    /\ Track("ProcessRequest", ok)
    /\ query_call' = [query_call EXCEPT !.pc = IF ok THEN "commit" ELSE "rollback",
                                        !.results = IF ok THEN "rows" ELSE "error"]
    /\ query_result' = NoQueryResult
    /\ UNCHANGED in_transaction
    /\ UNCHANGED <<poolVars, sessionVars, configVars>>

\* Lines 137-141: ROLLBACK after the query failed; the call returns the
\* error of the ROLLBACK if it fails too, the error of the query otherwise.
query_transaction_rollback(ok) ==
    /\ query_call.pc = "rollback"
    /\ Send(Rollback, ok)
    /\ UNCHANGED request_tracker
    /\ ReturnOfQuery("Err", IF ok THEN "query" ELSE "ROLLBACK")
    /\ UNCHANGED in_transaction
    /\ UNCHANGED <<poolVars, sessionVars, configVars>>

\* Lines 144-149: COMMIT after the query succeeded.
query_transaction_commit(ok) ==
    /\ query_call.pc = "commit"
    /\ Send(Commit, ok)
    /\ Track("PostgresTransactionCommit", ok)
    /\ IF ok THEN ReturnOfQuery("Ok", "query") ELSE ReturnOfQuery("Err", "COMMIT")
    /\ UNCHANGED in_transaction
    /\ UNCHANGED <<poolVars, sessionVars, configVars>>

\* Lines 155-162: the session-wide timeout.
query_command_set(ok) ==
    /\ query_call.pc = "set"
    /\ Send(SetSession(query_call.timeout.max_time_ms), ok)
    /\ Track("PostgresSetStatementTimeout", ok)
    /\ IF ok THEN QueryGoto("query_command") ELSE ReturnOfQuery("Err", "set")
    /\ UNCHANGED in_transaction
    /\ UNCHANGED <<poolVars, sessionVars, configVars>>

\* A variant of the command way that returns the query's error before it
\* resets the timeout.
query_command_query_returning_early(ok) ==
    /\ query_call.pc = "query_command"
    /\ Send(TheQuery, ok)
    /\ Track("ProcessRequest", TRUE)
    /\ IF ok
       THEN /\ query_call' = [query_call EXCEPT !.pc = "reset", !.results = "rows"]
            /\ query_result' = NoQueryResult
       ELSE ReturnOfQuery("Err", "query")
    /\ UNCHANGED in_transaction
    /\ UNCHANGED <<poolVars, sessionVars, configVars>>

\* Lines 164-166: the query; its result is kept.
query_command_query(ok) ==
    /\ query_call.pc = "query_command"
    /\ Send(TheQuery, ok)
    /\ Track("ProcessRequest", TRUE)
    /\ query_call' = [query_call EXCEPT !.pc = "reset",
                                        !.results = IF ok THEN "rows" ELSE "error"]
    /\ query_result' = NoQueryResult
    /\ UNCHANGED in_transaction
    /\ UNCHANGED <<poolVars, sessionVars, configVars>>

\* Lines 168-180: the session timeout is set to the default, whatever the
\* query gave; the error of the reset comes before the result of the query.
query_command_reset(ok) ==
    /\ query_call.pc = "reset"
    /\ Send(SetSession(DefaultTimeoutMs), ok)
    /\ Track("PostgresSetStatementTimeout", ok)
    /\ IF ~ok THEN ReturnOfQuery("Err", "reset")
       ELSE IF query_call.results = "rows" THEN ReturnOfQuery("Ok", "query")
       ELSE ReturnOfQuery("Err", "query")
    /\ UNCHANGED in_transaction
    /\ UNCHANGED <<poolVars, sessionVars, configVars>>

\* Lines 182-188: no timeout, the query alone.
query_plain(ok) ==
    /\ query_call.pc = "query"
    /\ Send(TheQuery, ok)
    /\ Track("ProcessRequest", TRUE)
    /\ ReturnOfQuery(IF ok THEN "Ok" ELSE "Err", "query")
    /\ UNCHANGED in_transaction
    /\ UNCHANGED <<poolVars, sessionVars, configVars>>

\* A pooled connection fresh from the backend: no transaction, the default
\* statement timeout, no call in progress.
QueryStart ==
    /\ backend = [open |-> FALSE, session_timeout |-> DefaultTimeoutMs, local_timeout |-> 0]
    /\ in_transaction = FALSE
    /\ query_call = NoCallOfQuery
    /\ issued = << >>
    /\ request_tracker = << >>
    /\ query_result = NoQueryResult

\* ServiceContext::new (context/service.rs 32-52): empty stores, every
\* connection in its pool, no request in progress.
SessionStart(usernames) ==
    /\ auth_state \in [Clients -> usernames]
    /\ idle = [k \in Conns |-> 1]
    /\ conn_open = [k \in Conns |-> NoSession]
    /\ transactions = [s \in Sessions |-> NoTransactionEntry]
    /\ cursor_store = << >>
    /\ ctx = [c \in Clients |-> IdleContext]
    /\ reply = NoReply

\* PoolManager::new after the two fixed pools were built (startup.rs,
\* tests/pool_manager_tests.rs test_pool_manager): both registries empty.
PoolStart(max_conns) ==
    /\ max_conn \in max_conns
    /\ now = 0
    /\ pools = << [kind |-> "fixed", key |-> FixedKey,
                   max_size |-> SYSTEM_REQUESTS_MAX_CONNECTIONS,
                   last_used |-> 0, state |-> "registered"],
                  [kind |-> "fixed", key |-> FixedKey,
                   max_size |-> AUTHENTICATION_MAX_CONNECTIONS,
                   last_used |-> 0, state |-> "registered"] >>
    /\ user_data_pools = << >>
    /\ system_shared_pools = << >>
    /\ user_lock = FreeLock
    /\ shared_lock = FreeLock
    /\ pc = [c \in Callers |-> "idle"]
    /\ call = [c \in Callers |-> NoCall]
    /\ handed = {}
    /\ ret = NoRet
    /\ sweep = Idle

InitPool == PoolStart(MaxConnValues) /\ SessionStart({"u1"}) /\ ConfigAtRest /\ QueryStart

NextPool ==
    \/ \E c \in Callers, u \in Users, p \in Passes : get_data_pool(c, u, p)
    \/ \E c \in Callers, u \in Users, p \in Passes : allocate_data_pool_check(c, u, p)
    \/ \E c \in Callers : allocate_data_pool_write_lock(c)
    \/ \E c \in Callers : allocate_data_pool_locked(c)
    \/ \E c \in Callers : get_system_shared_pool_check(c)
    \/ \E c \in Callers : get_system_shared_pool_write_lock(c)
    \/ \E c \in Callers : get_system_shared_pool_locked(c)
    \/ \E c \in Callers : report_pool_stats_user(c)
    \/ \E c \in Callers : report_pool_stats_shared(c)
    \/ \E c \in Callers, p \in DOMAIN pools : acquire_connection(c, p)
    \/ \E c \in Callers, ok \in BOOLEAN : acquire_connection_get(c, ok)
    \/ clean_user_scan
    \/ clean_user_remove
    \/ clean_shared_scan
    \/ clean_shared_remove
    \/ \E value \in MaxConnValues : set_max_conn(value)
    \/ Tick

SpecPool == InitPool /\ [][NextPool]_vars

\* The pool manager with the scan of the sweep taken one await at a time:
\* the read lock of the registry first, then the last_used() of its pools.
NextSweep ==
    \/ \E c \in Callers, u \in Users, p \in Passes : get_data_pool(c, u, p)
    \/ \E c \in Callers, u \in Users, p \in Passes : allocate_data_pool_check(c, u, p)
    \/ \E c \in Callers : allocate_data_pool_write_lock(c)
    \/ \E c \in Callers : allocate_data_pool_locked(c)
    \/ \E c \in Callers : get_system_shared_pool_check(c)
    \/ \E c \in Callers : get_system_shared_pool_write_lock(c)
    \/ \E c \in Callers : get_system_shared_pool_locked(c)
    \/ \E c \in Callers : report_pool_stats_user(c)
    \/ \E c \in Callers : report_pool_stats_shared(c)
    \/ \E c \in Callers, p \in DOMAIN pools : acquire_connection(c, p)
    \/ \E c \in Callers, ok \in BOOLEAN : acquire_connection_get(c, ok)
    \/ clean_user_scan_read_lock
    \/ clean_user_scan_pools
    \/ clean_user_remove
    \/ clean_shared_scan_read_lock
    \/ clean_shared_scan_pools
    \/ clean_shared_remove
    \/ Tick

InitSweep == PoolStart({5}) /\ SessionStart({"u1"}) /\ ConfigAtRest /\ QueryStart

SpecSweep == InitSweep /\ [][NextSweep]_vars

\* The pool manager, its pools and the refresh task of the configuration
\* together.  One user key is used, so that a registry holds one pool and the
\* scan of the sweep awaits one last_used().
NextFair ==
    \/ \E c \in Callers, u \in Users : get_data_pool(c, u, "before")
    \/ \E c \in Callers, u \in Users : allocate_data_pool_check(c, u, "before")
    \/ \E c \in Callers : allocate_data_pool_write_lock(c)
    \/ \E c \in Callers : allocate_data_pool_locked(c)
    \/ \E c \in Callers : get_system_shared_pool_check(c)
    \/ \E c \in Callers : get_system_shared_pool_write_lock(c)
    \/ \E c \in Callers : get_system_shared_pool_locked(c)
    \/ \E c \in Callers : report_pool_stats_user(c)
    \/ \E c \in Callers : report_pool_stats_shared(c)
    \/ \E c \in Callers, p \in DOMAIN pools : acquire_connection(c, p)
    \/ \E c \in Callers, ok \in BOOLEAN : acquire_connection_get(c, ok)
    \/ clean_user_scan_read_lock
    \/ clean_user_scan_pools
    \/ clean_user_remove
    \/ clean_shared_scan_read_lock
    \/ clean_shared_scan_pools
    \/ clean_shared_remove
    \/ \E ok \in BOOLEAN : refresh_acquire_connection(ok)
    \/ \E dump \in {Dump(<< >>), DumpError} : reload_load(HostFileMissing, dump, NotInRecovery)
    \/ reload_store_values
    \/ reload_store_last_update

\* The steps by which a call of caller c that has begun goes on, those by
\* which a sweep that holds or has held a lock goes on, and those by which a
\* reload goes on once the refresh task has its connection.
Continue(c) ==
    \/ allocate_data_pool_write_lock(c)
    \/ allocate_data_pool_locked(c)
    \/ get_system_shared_pool_write_lock(c)
    \/ get_system_shared_pool_locked(c)
    \/ report_pool_stats_shared(c)
    \/ \E ok \in BOOLEAN : acquire_connection_get(c, ok)

ContinueSweep ==
    \/ clean_user_scan_pools
    \/ clean_user_remove
    \/ clean_shared_scan_read_lock
    \/ clean_shared_scan_pools
    \/ clean_shared_remove

ContinueReload ==
    \/ \E dump \in {Dump(<< >>), DumpError} : reload_load(HostFileMissing, dump, NotInRecovery)
    \/ reload_store_values
    \/ reload_store_last_update

\* What the scheduling gives.  A task that is ready is polled again; a wait
\* inside a pool ends with a connection or with the wait timeout
\* (acquire_connection_get); and tokio's RwLock queues its waiters first-in
\* first-out, so a task waiting for a lock that is free again and again gets
\* it: strong fairness of the steps of each task.  The reload waits for no
\* lock that is held across an await: weak fairness.
FairSteps ==
    /\ \A c \in Callers : SF_vars(Continue(c))
    /\ SF_vars(ContinueSweep)
    /\ WF_vars(ContinueReload)

SpecFair == InitSweep /\ [][NextFair]_vars /\ FairSteps


\* The sessions run against a pool manager at rest.
InitSession ==
    /\ SessionStart({"u1"})
    /\ PoolStart({CHOOSE m \in MaxConnValues : TRUE})
    /\ ConfigAtRest
    /\ QueryStart

NextSession ==
    \/ \E c \in Clients, request \in Requests : handle(c, request)
    \/ \E c \in Clients : process_commit(c)
    \/ \E c \in Clients : process_abort(c)
    \/ \E c \in Clients : process_find_in_transaction(c)
    \/ \E c \in Clients, coll \in Colls : process_find_pull_connection(c, "db", coll)
    \/ \E c \in Clients, cursor \in {"none", "persist", "stateless"}, t \in BOOLEAN :
          save_cursor(c, cursor, t)
    \/ \E c \in Clients, id \in CursorIds : process_get_more_get_cursor(c, id)
    \/ \E c \in Clients, result \in {"error", "exhausted", "more"}, t \in BOOLEAN :
          process_get_more_execute(c, result, t)
    \/ \E c \in Clients, ids \in SUBSET CursorIds, ok \in BOOLEAN :
          process_kill_cursors(c, ids, ok)
    \/ \E c \in Clients, coll \in Colls : process_drop_collection_invalidate(c, "db", coll)
    \/ \E c \in Clients : process_drop_database_invalidate(c, "db")
    \/ \E c \in Clients, ok \in BOOLEAN : process_drop_collection_execute(c, ok)
    \/ \E c \in Clients, ok \in BOOLEAN : process_drop_database_execute(c, ok)
    \/ \E s \in Sessions : transaction_deadline_passes(s)
    \/ transaction_sweep
    \/ \E id \in CursorIds, u \in Usernames : cursor_deadline_passes(<<id, u>>)
    \/ cursor_sweep

SpecSession == InitSession /\ [][NextSession]_vars

(***************************************************************************)
(* The legality checks of handle, over every request type and database     *)
(* that handle tells apart, with the transaction store behind them.        *)
(***************************************************************************)
AllRequestTypes == IndexRequests \cup DataRequests
                   \cup {"Delete", "CommitTransaction", "AbortTransaction"}

\* A delete appears against the reserved databases only.
LegalityRequests ==
    {r \in [type : AllRequestTypes,
            info : {NoInfo, AutoCommit, [present |-> TRUE, auto_commit |-> FALSE, number |-> 1]},
            session : Sessions, db : {"db"} \cup ReservedDbs] :
        r.type = "Delete" => r.db \in ReservedDbs}

NextLegality ==
    \/ \E c \in Clients, request \in LegalityRequests : handle(c, request)
    \/ \E c \in Clients : process_commit(c)
    \/ \E c \in Clients : process_abort(c)
    \/ \E c \in Clients : process_find_in_transaction(c)
    \/ \E c \in Clients : process_untransacted(c)
    \/ transaction_sweep

SpecLegality == InitSession /\ [][NextLegality]_vars

(***************************************************************************)
(* The cursor store used by clients of several users: finds that leave     *)
(* cursors, getMore, killCursors, the idle deadlines and the sweep.        *)
(***************************************************************************)
InitCursor ==
    /\ SessionStart(Usernames)
    /\ PoolStart({CHOOSE m \in MaxConnValues : TRUE})
    /\ ConfigAtRest
    /\ QueryStart

NextCursor ==
    \/ \E c \in Clients, coll \in Colls : process_find_pull_connection(c, "db", coll)
    \/ \E c \in Clients, cursor \in {"none", "persist", "stateless"}, t \in BOOLEAN :
          save_cursor(c, cursor, t)
    \/ \E c \in Clients, id \in CursorIds : process_get_more_get_cursor(c, id)
    \/ \E c \in Clients, result \in {"error", "exhausted", "more"}, t \in BOOLEAN :
          process_get_more_execute(c, result, t)
    \/ \E c \in Clients, ids \in SUBSET KillCursorIds, ok \in BOOLEAN :
          process_kill_cursors(c, ids, ok)
    \/ \E id \in CursorIds, u \in Usernames : cursor_deadline_passes(<<id, u>>)
    \/ cursor_sweep

SpecCursor == InitCursor /\ [][NextCursor]_vars

(***************************************************************************)
(* Cursors on the collections of several databases, of clients of several  *)
(* users, with the drops of collections and databases that invalidate them. *)
(***************************************************************************)
NextInvalidate ==
    \/ \E c \in Clients, db \in Databases, coll \in Colls :
          process_find_pull_connection(c, db, coll)
    \/ \E c \in Clients, cursor \in {"none", "persist", "stateless"}, t \in BOOLEAN :
          save_cursor(c, cursor, t)
    \/ \E c \in Clients, db \in Databases, coll \in Colls :
          process_drop_collection_invalidate(c, db, coll)
    \/ \E c \in Clients, db \in Databases : process_drop_database_invalidate(c, db)
    \/ \E c \in Clients, ok \in BOOLEAN : process_drop_collection_execute(c, ok)
    \/ \E c \in Clients, ok \in BOOLEAN : process_drop_database_execute(c, ok)

SpecInvalidate == InitCursor /\ [][NextInvalidate]_vars

(***************************************************************************)
(* The transaction store with its deadlines and its periodic sweep, which  *)
(* runs again and again for as long as the gateway runs.                   *)
(***************************************************************************)
NextExpiry ==
    \/ \E c \in Clients, request \in Requests : handle(c, request)
    \/ \E c \in Clients : process_commit(c)
    \/ \E c \in Clients : process_abort(c)
    \/ \E c \in Clients : process_find_in_transaction(c)
    \/ \E s \in Sessions : transaction_deadline_passes(s)
    \/ transaction_sweep

SpecExpiry == InitSession /\ [][NextExpiry]_vars /\ WF_vars(transaction_sweep)

(***************************************************************************)
(* The typed getters, read on every configuration a first load can give.   *)
(***************************************************************************)
InitGetters ==
    /\ SessionStart({"u1"})
    /\ PoolStart({CHOOSE m \in MaxConnValues : TRUE})
    /\ ConfigStart(HostFiles, Dumps(GetterSettings), Probes)
    /\ QueryStart

NextGetters ==
    \/ \E key \in ConfigKeys : get_str(key)
    \/ \E key \in ConfigKeys, default \in BOOLEAN : get_bool(key, default)
    \/ \E key \in ConfigKeys, default \in {0, 7} : get_i32(key, default)
    \/ \E key \in ConfigKeys, default \in {U64(0, 0), U64(0, 7)} : get_u64(key, default)
    \/ \E key \in ConfigKeys, value \in {"true", "25", "always"} : equals_value(key, value)

SpecGetters == InitGetters /\ [][NextGetters]_vars

(***************************************************************************)
(* The configuration with its refresh task and readers.                    *)
(***************************************************************************)
InitConfig ==
    /\ SessionStart({"u1"})
    /\ PoolStart({CHOOSE m \in MaxConnValues : TRUE})
    /\ ConfigStart(HostFiles, Dumps(ReloadSettings), Probes)
    /\ QueryStart

NextConfig ==
    \/ \E ok \in BOOLEAN : refresh_acquire_connection(ok)
    \/ \E host \in HostFiles, dump \in Dumps(ReloadSettings), recovery \in Probes :
          reload_load(host, dump, recovery)
    \/ reload_store_values
    \/ reload_store_last_update
    \/ \E key \in ConfigKeys : get_str(key)
    \/ get_last_update_at
    \/ Tick

SpecConfig == InitConfig /\ [][NextConfig]_vars

\* The reloads of the refresh task alone, over every outcome of their loads.
NextLoad ==
    \/ \E ok \in BOOLEAN : refresh_acquire_connection(ok)
    \/ \E host \in HostFiles, dump \in Dumps(ReloadSettings), recovery \in Probes :
          reload_load(host, dump, recovery)
    \/ reload_store_values
    \/ reload_store_last_update

SpecLoad == InitConfig /\ [][NextLoad]_vars

\* The pool manager on a snapshot of the configuration: what the pool calls
\* read as max-connections is max_connections of the snapshot.
KeySettings == {"5", "25", "-1", "on", "3000000000"}
KeyDumps == {Dump(rows) : rows \in UNION {[1..n -> {"max_connections"} \X KeySettings] : n \in 0..1}}

InitKey ==
    /\ ConfigStart({HostFileMissing}, KeyDumps, {NotInRecovery})
    /\ PoolStart({max_connections_of(values)})
    /\ SessionStart({"u1"})
    /\ QueryStart

NextKey ==
    \/ max_connections
    \/ \E c \in Callers, u \in Users, p \in Passes : get_data_pool(c, u, p)
    \/ \E c \in Callers, u \in Users, p \in Passes : allocate_data_pool_check(c, u, p)
    \/ \E c \in Callers : allocate_data_pool_write_lock(c)
    \/ \E c \in Callers : allocate_data_pool_locked(c)
    \/ \E c \in Callers : get_system_shared_pool_check(c)
    \/ \E c \in Callers : get_system_shared_pool_write_lock(c)
    \/ \E c \in Callers : get_system_shared_pool_locked(c)

SpecKey == InitKey /\ [][NextKey]_vars

\* The reloads over settings whose names carry prefixes or are the names of
\* keys that the load writes itself.
PrecedenceNames == {"documentdb.gateway.readOnly", "gateway.readOnly", "IsPrimary",
                    POSTGRES_RECOVERY_KEY}
PrecedenceHostFiles == {HostFileMissing, HostFile("True", "")}
PrecedenceDumps ==
    {DumpError} \cup
    {Dump(rows) : rows \in UNION {[1..n -> PrecedenceNames \X {"on", "off"}] : n \in 0..MaxRows}}

InitPrecedence ==
    /\ SessionStart({"u1"})
    /\ PoolStart({CHOOSE m \in MaxConnValues : TRUE})
    /\ ConfigStart(PrecedenceHostFiles, {Dump(<< >>)}, {NotInRecovery})
    /\ QueryStart

NextPrecedence ==
    \/ \E ok \in BOOLEAN : refresh_acquire_connection(ok)
    \/ \E host \in PrecedenceHostFiles, dump \in PrecedenceDumps, recovery \in Probes :
          reload_load(host, dump, recovery)
    \/ reload_store_values
    \/ reload_store_last_update

SpecPrecedence == InitPrecedence /\ [][NextPrecedence]_vars

\* The derived accessors next to the reloads: the settings the reloads find
\* are those that is_replica_cluster reads.
ReplicaRows == {<<"citus.use_secondary_nodes", "always">>,
                <<"documentdb.simulateReadReplica", "on">>}
ReplicaDumps == {Dump(rows) : rows \in UNION {[1..n -> ReplicaRows] : n \in 0..MaxRows}}

InitReplica ==
    /\ SessionStart({"u1"})
    /\ PoolStart({CHOOSE m \in MaxConnValues : TRUE})
    /\ ConfigStart({HostFileMissing}, ReplicaDumps, Probes)
    /\ QueryStart

NextReplica ==
    \/ \E ok \in BOOLEAN : refresh_acquire_connection(ok)
    \/ \E dump \in ReplicaDumps \cup {DumpError}, recovery \in Probes :
          reload_load(HostFileMissing, dump, recovery)
    \/ reload_store_values
    \/ reload_store_last_update
    \/ is_postgres_writable
    \/ is_replica_cluster_recovery
    \/ is_replica_cluster_use_secondary_nodes
    \/ is_replica_cluster_simulate

SpecReplica == InitReplica /\ [][NextReplica]_vars

(***************************************************************************)
(* Calls of Connection::query on one pooled connection, inside and outside *)
(* the transactions of the store.                                          *)
(***************************************************************************)
NextQuery ==
    \/ ambient_transaction_begins
    \/ ambient_transaction_ends
    \/ \E timeout \in Timeouts : query(timeout)
    \/ \E ok \in BOOLEAN : query_in_transaction_set_local(ok)
    \/ \E ok \in BOOLEAN : query_in_transaction_query(ok)
    \/ \E ok \in BOOLEAN : query_in_transaction_restore(ok)
    \/ \E ok \in BOOLEAN : query_transaction_begin(ok)
    \/ \E ok \in BOOLEAN : query_transaction_set_local(ok)
    \/ \E ok \in BOOLEAN : query_transaction_query(ok)
    \/ \E ok \in BOOLEAN : query_transaction_rollback(ok)
    \/ \E ok \in BOOLEAN : query_transaction_commit(ok)
    \/ \E ok \in BOOLEAN : query_command_set(ok)
    \/ \E ok \in BOOLEAN : query_command_query(ok)
    \/ \E ok \in BOOLEAN : query_command_reset(ok)
    \/ \E ok \in BOOLEAN : query_plain(ok)

SpecQuery == InitSession /\ [][NextQuery]_vars

(***************************************************************************)
(* Properties of the pool manager (checked under SpecPool).                *)
(***************************************************************************)
UserKey(r) == <<r.user, r.pass, r.m>>
Entries(map) == Cardinality(DOMAIN map)

\* C1: concurrent allocate_data_pool calls for one (user, pass) under a
\* constant max-connections value construct exactly one pool, leave exactly
\* one entry under the key, and every one of them returns Ok.  As stated: a
\* returning call returns Ok with its key registered, no constructed pool is
\* ever replaced by a second one for its key, and no two registered pools
\* share a key.
C1_ConcurrentAllocateOnce ==
    /\ ret.op = "allocate_data_pool" =>
          ret.kind = "Ok" /\ UserKey(ret) \in DOMAIN user_data_pools
    /\ \A i \in DOMAIN pools : pools[i].state # "replaced"
    /\ \A i, j \in DOMAIN pools :
          /\ pools[i].kind = "user" /\ pools[j].kind = "user"
          /\ pools[i].key = pools[j].key
          /\ pools[i].state = "registered" /\ pools[j].state = "registered"
          => i = j

\* C1's failing case: of two calls for the same key, one ends in the panic of
\* get_real_max_connections while the other is still inside the call.
C1_AllocatePanics ==
    /\ ret.op = "allocate_data_pool"
    /\ ret.kind = "Panic"
    /\ \E c \in Callers : call[c].op = "allocate_data_pool" /\ UserKey(call[c]) = UserKey(ret)

\* C6: get_system_shared_pool returns the pool keyed by the max-connections
\* value it read, creating it only if absent; calls under an unchanged value
\* return the same pool and keep one entry for it; a shared entry stays in
\* the registry (and so in report_pool_stats) until the sweep removes it.
C6_SharedPoolByValue ==
    [][ /\ ret'.op = "get_system_shared_pool" =>
             /\ ret'.kind = "Ok"
             /\ ret'.m \in DOMAIN system_shared_pools'
             /\ ret'.pool = system_shared_pools'[ret'.m]
             /\ pools'[ret'.pool].key = SharedKey(ret'.m)
             /\ ret'.m \in DOMAIN system_shared_pools =>
                   pools' = pools /\ system_shared_pools' = system_shared_pools
        /\ \A k \in DOMAIN system_shared_pools :
             \/ k \in DOMAIN system_shared_pools'
                  /\ system_shared_pools'[k] = system_shared_pools[k]
             \/ sweep.pc = "remove_shared" /\ sweep'.pc = "sleep"
      ]_vars

\* C6's failing case: after max-connections changed, the next call panics
\* instead of returning the pool of the new value, while the old value's
\* pool is still registered.
C6_SharedPoolPanics ==
    /\ ret.op = "get_system_shared_pool"
    /\ ret.kind = "Panic"
    /\ ret.m = max_conn
    /\ \E k \in DOMAIN system_shared_pools : k # max_conn

\* C7: a change of max-connections leaves both registries and every pool as
\* they are (the old entries are neither resized nor removed); a lookup keys
\* into the entry of the value current at the lookup, so it never returns a
\* pool built under another value, and a user who has no entry under the
\* current value gets the pool-missing error whatever entries other values
\* hold.
C7_LookupKeyedByCurrentMaxConn ==
    [][ /\ max_conn' # max_conn =>
             /\ pools' = pools
             /\ user_data_pools' = user_data_pools
             /\ system_shared_pools' = system_shared_pools
        /\ ret'.op = "get_data_pool" =>
             /\ ret'.m = max_conn
             /\ ret'.kind = "Ok" => pools[ret'.pool].key = <<ret'.user, ret'.pass, max_conn>>
             /\ <<ret'.user, ret'.pass, max_conn>> \notin DOMAIN user_data_pools =>
                   ret'.kind = "PoolMissing"
      ]_vars

\* C7's case: the lookup fails although the same user and password have an
\* entry under another max-connections value.
C7_ProvisionedUnderOldValueOnly ==
    /\ ret.op = "get_data_pool"
    /\ ret.kind = "PoolMissing"
    /\ \E key \in DOMAIN user_data_pools :
          key[1] = ret.user /\ key[2] = ret.pass /\ key[3] # ret.m

\* C8: get_data_pool returns the pool registered under (user, pass, current
\* max-connections) or fails with the pool-missing error; it constructs no
\* pool and leaves both registries unchanged.
C8_LookupNeverConstructs ==
    [][ ret'.op = "get_data_pool" =>
          /\ IF UserKey(ret') \in DOMAIN user_data_pools
             THEN ret'.kind = "Ok" /\ ret'.pool = user_data_pools[UserKey(ret')]
             ELSE ret'.kind = "PoolMissing" /\ ret'.pool = NoPool
          /\ pools' = pools
          /\ user_data_pools' = user_data_pools
          /\ system_shared_pools' = system_shared_pools
      ]_vars

\* C8's case: a lookup that misses while the registry holds other entries.
C8_LookupMisses ==
    /\ ret.op = "get_data_pool"
    /\ ret.kind = "PoolMissing"
    /\ DOMAIN user_data_pools # {}
    /\ Len(pools) = 2 + Entries(user_data_pools)

\* C9: allocate_data_pool is idempotent: a call whose key is registered
\* (an earlier call succeeded, max-connections is unchanged, no sweep removed
\* the entry) returns Ok at its first check, constructs nothing and leaves the
\* registry and the registered pool as they are.
C9_AllocateIdempotent ==
    [][ /\ ret'.op = "allocate_data_pool" /\ UserKey(ret') \in DOMAIN user_data_pools =>
             /\ ret'.kind = "Ok"
             /\ pools' = pools
             /\ user_data_pools' = user_data_pools
        /\ \A c \in Callers :
             pc[c] = "idle" /\ pc'[c] = "alloc_wlock" =>
                UserKey(call'[c]) \notin DOMAIN user_data_pools
      ]_vars

\* C9's case: a call returns Ok for a key whose pool was built before the
\* clock last advanced, that is by an earlier call.
C9_SecondAllocate ==
    /\ ret.op = "allocate_data_pool"
    /\ ret.kind = "Ok"
    /\ UserKey(ret) \in DOMAIN user_data_pools
    /\ pools[user_data_pools[UserKey(ret)]].last_used < now

\* C10 as stated: whenever report_pool_stats returns, the length of its
\* result is 2 + the user registry's size + the shared registry's size.
C10_ReportLengthIsRegistrySizes ==
    ret.op = "report_pool_stats" =>
       Len(ret.stats) = 2 + Entries(user_data_pools) + Entries(system_shared_pools)

\* C10, amended: report_pool_stats reads the two registries one after the
\* other, each under its own read lock: its result holds the two fixed pools,
\* one status per user entry present when the user registry is read, and one
\* per shared entry present when the shared registry is read afterwards.  A
\* successful allocate for a new key (the same user with another password
\* included) adds exactly one user entry.
C10_ReportLengthAtEachRead ==
    [][ /\ \A c \in Callers :
             /\ pc[c] = "idle" /\ pc'[c] = "report_shared" =>
                   Len(call'[c].stats) = 2 + Entries(user_data_pools)
             /\ pc[c] = "report_shared" /\ pc'[c] = "idle" =>
                   /\ ret'.op = "report_pool_stats"
                   /\ Len(ret'.stats) = Len(call[c].stats) + Entries(system_shared_pools)
        /\ ret'.op = "allocate_data_pool" /\ user_data_pools' # user_data_pools =>
             /\ DOMAIN user_data_pools' = DOMAIN user_data_pools \cup {UserKey(ret')}
             /\ Entries(user_data_pools') = Entries(user_data_pools) + 1
      ]_vars

\* C10's case: a report whose length is that of neither registry state: an
\* entry it counted was removed, or one it missed was added, before it
\* returned.
C10_ReportStraddlesChange ==
    /\ ret.op = "report_pool_stats"
    /\ Len(ret.stats) # 2 + Entries(user_data_pools) + Entries(system_shared_pools)
    /\ \E k1, k2 \in DOMAIN user_data_pools : k1[1] = k2[1] /\ k1[2] # k2[2]

(***************************************************************************)
(* Properties of the sessions (checked under SpecSession).                 *)
(***************************************************************************)
\* Who holds connection k: requests in flight, stored transactions and
\* stored cursors.
Holders(k) ==
    {<<"op", c>> : c \in {d \in Clients : ctx[d].conn = k}}
    \cup {<<"transaction", s>> : s \in {t \in Sessions : transactions[t].conn = k}}
    \cup {<<"cursor", id>> : id \in {i \in DOMAIN cursor_store : cursor_store[i].conn = k}}

Transition(s) ==
    LET old == transactions[s]
        new == transactions'[s]
    IN  \/ /\ new.state = old.state
           /\ new.number = old.number
           /\ new.conn = old.conn
        \/ old.state = "absent" /\ new.state = "Active"
        \/ old.state = "Active" /\ new.state \in {"Committed", "Aborted"}
        \/ old.state \in {"Committed", "Aborted"} /\ new.state = "absent"

\* C4: per session the store goes absent to Active, Active to Committed,
\* Active to Aborted, terminal to absent and no other way (never from
\* Committed or Aborted back to Active); a commit or an abort that changes
\* the store changes an Active transaction.
C4_StateMachine ==
    [][/\ \A s \in Sessions : Transition(s)
       /\ reply'.op \in {"CommitTransaction", "AbortTransaction"}
             /\ transactions' # transactions =>
                \E s \in Sessions :
                    /\ transactions[s].state = "Active"
                    /\ transactions'[s].state =
                          IF reply'.op = "CommitTransaction" THEN "Committed" ELSE "Aborted"
                    /\ \A t \in Sessions \ {s} : transactions'[t] = transactions[t]]_vars

\* C4, its case: an abort came for a transaction already terminal, and the
\* entry stayed as it was.
C4_AbortOfTerminal ==
    /\ reply = [op |-> "AbortTransaction", kind |-> "TransactionNotFound"]
    /\ \E s \in Sessions : transactions[s].state \in {"Committed", "Aborted"}

Max(a, b) == IF a >= b THEN a ELSE b

\* C11: a pool newly built by allocate_data_pool or get_system_shared_pool
\* under max-connections m and budget b has capacity max(m - b, b), also
\* when b exceeds m; no such call ends otherwise.
C11_CapacityIsMaxOfDifferenceAndBudget ==
    /\ ret.kind # "Panic"
    /\ \A i \in DOMAIN pools :
          pools[i].kind # "fixed" =>
             \E b \in Budgets : pools[i].max_size = Max(pools[i].key[3] - b, b)

\* C11's failing case: a pool was built under a max-connections value below
\* the budget, with the wrapped difference as its capacity.
C11_CapacityWrapped ==
    \E i \in DOMAIN pools, b \in Budgets :
        /\ pools[i].kind # "fixed"
        /\ pools[i].key[3] < b
        /\ pools[i].max_size = (pools[i].key[3] - b) % UsizeModulus

\* The sweep step on registry map: its scan collects exactly the keys whose
\* pool was last used more than SweepMaxAge ago; its removal finds every
\* collected key still registered, removes those and leaves every other
\* entry as it is.
CleanStep(map, mapAfter, scanning, removing) ==
    /\ sweep.pc = scanning /\ sweep'.pc = removing =>
          sweep'.keys_to_remove =
             {key \in DOMAIN map : now - pools[map[key]].last_used > SweepMaxAge}
    /\ sweep.pc = removing /\ sweep'.pc # removing =>
          /\ sweep.keys_to_remove \subseteq DOMAIN map
          /\ DOMAIN mapAfter = DOMAIN map \ sweep.keys_to_remove
          /\ \A key \in DOMAIN mapAfter : mapAfter[key] = map[key]

\* C12: clean_unused_pools(max_age) removes from the user registry and from
\* the shared registry every entry whose pool was last used more than
\* max_age before its scan, removes no entry last used at most max_age
\* before its scan, and never removes the two fixed pools.
C12_SweepRemovesExactlyTheUnused ==
    [][ /\ CleanStep(user_data_pools, user_data_pools', "sleep", "remove_user")
        /\ CleanStep(system_shared_pools, system_shared_pools',
                     "scan_shared", "remove_shared")
        /\ \A p \in {SystemRequestsPool, SystemAuthPool} :
              pools'[p].kind = "fixed" /\ pools'[p].state = "registered"
      ]_vars

\* C12, its case: the sweep removed a user pool and kept another that was
\* in use within max_age.
C12_SweptOneKeptOne ==
    /\ sweep.pc = "scan_shared"
    /\ \E i, j \in DOMAIN pools :
          /\ pools[i].kind = "user" /\ pools[i].state = "removed"
          /\ pools[j].kind = "user" /\ pools[j].state = "registered"
          /\ now - pools[j].last_used <= SweepMaxAge
          /\ pools[j].key \in DOMAIN user_data_pools

\* C13: acquire_connection stores the time at which it runs as the pool's
\* last-used timestamp, never an earlier time than the pool had; the
\* timestamp stays as stored until the call returns, so after a successful
\* call it is the time of that acquisition; a call for which no connection
\* becomes available within the wait-timeout ends with the acquire-timeout
\* error and with no connection.
C13_AcquireStampsLastUsed ==
    [][ /\ \A c \in Callers :
             pc[c] # "acquiring" /\ pc'[c] = "acquiring" =>
                pools'[call'[c].pool].last_used = now
        /\ \A c \in Callers :
             pc[c] = "acquiring" =>
                pools'[call[c].pool].last_used = pools[call[c].pool].last_used
        /\ \A p \in DOMAIN pools : pools'[p].last_used >= pools[p].last_used
        /\ ret'.op = "acquire_connection" =>
             /\ \E c \in Callers : pc[c] = "acquiring" /\ call[c].pool = ret'.pool
             /\ ret'.kind \in {"Ok", "AcquireTimeout"}
             /\ pools'[ret'.pool].last_used <= now'
      ]_vars

\* C13, its case: a successful acquire_connection returned after it waited
\* for its connection while time passed.
C13_AcquiredAfterWait ==
    /\ ret.op = "acquire_connection"
    /\ ret.kind = "Ok"
    /\ pools[ret.pool].last_used < now

(***************************************************************************)
(* Further properties of the sessions (checked under SpecSession).         *)
(***************************************************************************)
\* The request comes in a transaction of its own (not auto-commit), passes
\* the legality checks of handle and names its session.
InTransaction(request) ==
    /\ ~Untransacted(request.info)
    /\ request.type \notin IndexRequests
    /\ ~(request.type \in DataRequests /\ request.db \in ReservedDbs)
    /\ request.session # NoSession

\* The request of the given type in transaction transaction_number of
\* session session_id, on an ordinary database.
TransactionRequest(type, session_id, transaction_number) ==
    [type |-> type, session |-> session_id, db |-> "db",
     info |-> [present |-> TRUE, auto_commit |-> FALSE, number |-> transaction_number]]

\* C14: a CommitTransaction request for a session whose transaction is
\* Committed passes handle with no transaction populated and then completes
\* with Ok while the store and the pool stay as they are (no second commit);
\* a request of any other type for such a session ends in handle with the
\* already-committed condition as its error.
C14_CommitOfCommittedIsOk ==
    [][ /\ \A c \in Clients, s \in Sessions :
             /\ ctx[c].pc = "idle"
             /\ transactions[s].state = "Committed"
             => \A type \in RequestTypes \ IndexRequests, n \in 1..MaxTxnNumber :
                  handle(c, TransactionRequest(type, s, n))
                  => /\ UNCHANGED <<transactions, idle, conn_open>>
                     /\ IF type = "CommitTransaction"
                        THEN /\ ctx'[c].pc = "handled"
                             /\ ctx'[c].transaction = NoTransaction
                             /\ reply' = NoReply
                        ELSE /\ ctx'[c].pc = "idle"
                             /\ reply' = [op |-> type, kind |-> "TransactionCommitted"]
        /\ \A c \in Clients :
             /\ ctx[c].pc = "handled"
             /\ ctx[c].type = "CommitTransaction"
             /\ ctx[c].transaction = NoTransaction
             /\ ctx'[c] # ctx[c]
             => /\ reply' = [op |-> "CommitTransaction", kind |-> "Ok"]
                /\ UNCHANGED <<transactions, idle, conn_open>>
      ]_vars

\* C14, its case: with the session Committed, one client's commit request
\* passed handle with no transaction populated and another client's find got
\* the already-committed condition as its error.
C14_AlreadyCommittedSeen ==
    /\ reply = [op |-> "Find", kind |-> "TransactionCommitted"]
    /\ \E s \in Sessions : transactions[s].state = "Committed"
    /\ \E c \in Clients : /\ ctx[c].pc = "handled"
                          /\ ctx[c].type = "CommitTransaction"
                          /\ ctx[c].transaction = NoTransaction

\* C15: abort for a session with no Active transaction fails with
\* TransactionNotFound; no rollback is issued, no connection goes to a pool
\* and the transaction store stays as it is.
C15_AbortWithoutActive ==
    [][ \A c \in Clients :
          /\ ctx[c].pc = "handled"
          /\ ctx[c].type = "AbortTransaction"
          /\ ctx[c].transaction # NoTransaction
          /\ transactions[ctx[c].transaction[1]].state # "Active"
          /\ ctx'[c] # ctx[c]
          => /\ reply' = [op |-> "AbortTransaction", kind |-> "TransactionNotFound"]
             /\ UNCHANGED <<transactions, idle, conn_open>>
      ]_vars

\* C15, its case: the abort of a transaction that another request committed
\* meanwhile failed with TransactionNotFound; the entry is Committed and
\* every connection is in its pool.
C15_AbortAfterCommit ==
    /\ reply = [op |-> "AbortTransaction", kind |-> "TransactionNotFound"]
    /\ \A s \in Sessions : transactions[s].state = "Committed"
    /\ \A k \in Conns : idle[k] = 1 /\ conn_open[k] = NoSession

(***************************************************************************)
(* Properties of the legality checks (checked under SpecLegality).         *)
(***************************************************************************)
\* The requests to reject for legality: inside a transaction that is not
\* auto-commit, a schema or index command, or a data operation against a
\* reserved database.
MustReject(request) ==
    /\ ~Untransacted(request.info)
    /\ \/ request.type \in {"ReIndex", "CreateIndex", "CreateIndexes", "DropIndexes"}
       \/ /\ request.type \in {"Insert", "Update", "Delete", "Find", "FindAndModify",
                               "Aggregate", "Count", "Distinct", "GetMore"}
          /\ request.db \in {"config", "admin", "local"}

\* The type of the request that client c's step took up.
TakenUp(c) == IF reply' # NoReply THEN reply'.op ELSE ctx'[c].type

\* C16: handle rejects a request with OperationNotSupportedInTransaction
\* exactly when the request is, inside a transaction that is not
\* auto-commit, a schema or index command (reIndex, createIndex,
\* createIndexes, dropIndexes) or a data operation (insert, update, delete,
\* find, findAndModify, aggregate, count, distinct, getMore) against a
\* reserved database (config, admin, local).
C16_RejectedExactlyWhenIllegal ==
    [][ \A c \in Clients :
          ctx[c].pc = "idle" /\ ctx'[c].pc \in {"idle", "handled"} =>
             \A info \in {NoInfo, AutoCommit,
                          [present |-> TRUE, auto_commit |-> FALSE, number |-> 1]},
                s \in Sessions, db \in {"db"} \cup ReservedDbs :
                LET request == [type |-> TakenUp(c), info |-> info, session |-> s, db |-> db]
                IN  request \in LegalityRequests /\ handle(c, request) =>
                       (reply'.kind = "OperationNotSupportedInTransaction"
                          <=> MustReject(request))
      ]_vars

\* C16's failing case: a delete against a reserved database, inside a
\* transaction, passed handle and begun the transaction.
C16_DeleteOnReservedPassed ==
    \E c \in Clients :
        /\ ctx[c].pc = "handled"
        /\ ctx[c].type = "Delete"
        /\ ctx[c].transaction # NoTransaction
        /\ transactions[ctx[c].transaction[1]].state = "Active"

\* The step is handle on a request of client c: the request went on to its
\* processor, or it ended in handle with an error.
HandleStep(c) ==
    /\ ctx[c].pc = "idle"
    /\ ctx'[c].pc = "handled" \/ (reply' # NoReply /\ ctx' = ctx)

\* C17: legality comes before any resource.  A request that handle rejects
\* as illegal, and a request with auto-commit or without transaction info,
\* leaves the transaction store and the pool as they are (no create, no
\* connection borrowed, no begin) and the transaction of the connection
\* context None; the transaction is populated with (session id, transaction
\* number) only when create succeeded, the entry being Active under that
\* number on a connection begun for the session.
C17_LegalityBeforeResources ==
    [][ \A c \in Clients :
          HandleStep(c) =>
             /\ reply'.kind = "OperationNotSupportedInTransaction" =>
                   /\ UNCHANGED <<transactions, idle, conn_open>>
                   /\ ctx'[c].transaction = NoTransaction
             /\ \A info \in {NoInfo, AutoCommit}, s \in Sessions :
                   handle(c, [type |-> TakenUp(c), info |-> info,
                              session |-> s, db |-> "db"]) =>
                      /\ UNCHANGED <<transactions, idle, conn_open>>
                      /\ ctx'[c].pc = "handled"
                      /\ ctx'[c].transaction = NoTransaction
             /\ ctx'[c].transaction = NoTransaction =>
                   UNCHANGED <<transactions, idle, conn_open>>
             /\ ctx'[c].transaction # NoTransaction =>
                   LET t == transactions'[ctx'[c].transaction[1]]
                   IN  /\ t.state = "Active"
                       /\ t.number = ctx'[c].transaction[2]
                       /\ conn_open'[t.conn] = ctx'[c].transaction[1]
      ]_vars

\* C17, its case: handle rejected a request as illegal while no
\* transaction exists and every connection is in its pool.
C17_RejectedBeforeCreate ==
    /\ reply.kind = "OperationNotSupportedInTransaction"
    /\ \A s \in Sessions : transactions[s].state = "absent"
    /\ \A k \in Conns : idle[k] = 1 /\ conn_open[k] = NoSession
    /\ \A c \in Clients : ctx[c].transaction = NoTransaction

(***************************************************************************)
(* Properties of the expiry sweep (checked under SpecExpiry).              *)
(***************************************************************************)
\* C18: an Active transaction whose deadline has passed is eventually no
\* longer Active with its connection back in the pool, and its entry is
\* eventually removed, the sweep running again and again; a transaction
\* that leaves Active by no commit and no abort of a client had passed its
\* deadline, is rolled back (Aborted) and its connection goes back.
C18_ExpiredEventuallySwept ==
    /\ \A s \in Sessions, k \in Conns :
          (transactions[s].state = "Active" /\ transactions[s].expired
              /\ transactions[s].conn = k)
          ~> (transactions[s].state # "Active" /\ idle[k] = 1)
    /\ \A s \in Sessions :
          (transactions[s].state = "Active" /\ transactions[s].expired)
          ~> (transactions[s].state = "absent")
    /\ [][ \A s \in Sessions :
             /\ transactions[s].state = "Active"
             /\ transactions'[s].state # "Active"
             /\ reply'.op \notin {"CommitTransaction", "AbortTransaction"}
             => /\ transactions[s].expired
                /\ transactions'[s].state = "Aborted"
                /\ idle'[transactions[s].conn] = idle[transactions[s].conn] + 1
                /\ conn_open'[transactions[s].conn] = NoSession
         ]_vars

\* C18, its case: the sweep rolled back an expired transaction while the
\* request that had joined it is still in handling.
C18_SweptWhileInUse ==
    \E s \in Sessions :
        /\ transactions[s].state = "Aborted"
        /\ reply = NoReply
        /\ \A k \in Conns : idle[k] = 1
        /\ \E c \in Clients : /\ ctx[c].pc = "handled"
                              /\ ctx[c].transaction # NoTransaction
                              /\ ctx[c].transaction[1] = s

(***************************************************************************)
(* C19.  get_cursor(id, username) returns the stored entry and removes it, *)
(* so a second get_cursor for the same key without a re-add fails; it      *)
(* fails with CursorNotFound for an id that was never added, was already   *)
(* removed or killed, or has expired.  In every get_cursor step: a live    *)
(* entry under (id, caller's username) is handed to the caller and is gone *)
(* from the store; otherwise the answer is CursorNotFound and the store is *)
(* as it was; and while one request holds the entry it took, a get_cursor  *)
(* for the same key is answered CursorNotFound.                            *)
(***************************************************************************)
CursorNotFound == [op |-> "GetMore", kind |-> "CursorNotFound"]

\* Client c holds the entry it took with get_cursor under key.
Took(c, key) ==
    ctx[c].pc = "got_cursor" /\ key = <<ctx[c].id, auth_state[c]>>

C19_GetCursorReturnsAndRemoves ==
    [][\A c \in Clients, id \in CursorIds :
          process_get_more_get_cursor(c, id)
            => LET key == <<id, auth_state[c]>>
               IN  /\ IF key \in DOMAIN cursor_store /\ ~cursor_store[key].expired
                      THEN /\ Took(c, key)'
                           /\ ctx'[c].entry = cursor_store[key]
                           /\ key \notin DOMAIN cursor_store'
                           /\ reply' # CursorNotFound
                      ELSE /\ reply' = CursorNotFound
                           /\ cursor_store' = cursor_store
                           /\ ctx'[c] = IdleContext
                   /\ (\E d \in Clients : Took(d, key)) => reply' = CursorNotFound]_vars

\* A getMore was just answered CursorNotFound while another request of the
\* same user holds the entry it took out under the same id.
C19_SecondGetFailed ==
    /\ reply = CursorNotFound
    /\ \E c, d \in Clients :
          /\ c # d
          /\ auth_state[c] = auth_state[d]
          /\ Took(c, <<1, auth_state[c]>>)
          /\ ctx[d] = IdleContext
    /\ cursor_store = << >>

(***************************************************************************)
(* C20.  Cursors are isolated per owner: for users u1 and u2 with u1       *)
(* different from u2, no sequence of get_cursor or kill_cursors calls made *)
(* as u2 returns, removes or otherwise changes a cursor that was added by  *)
(* u1, even when both use the same cursor id.  Every get_cursor and        *)
(* kill_cursors step of a client leaves each entry stored under another    *)
(* username as it was, with its connection still out of the pool, and an   *)
(* entry handed to the caller is the one stored under the caller's own     *)
(* username.                                                               *)
(***************************************************************************)
\* The entries added by users other than username are what they were.
OthersUntouched(username) ==
    \A key \in DOMAIN cursor_store :
        key[2] # username
          => /\ key \in DOMAIN cursor_store'
             /\ cursor_store'[key] = cursor_store[key]
             /\ cursor_store[key].conn # NoConn => idle'[cursor_store[key].conn] = 0

C20_CursorsIsolatedPerOwner ==
    [][\A c \in Clients :
          /\ \A id \in CursorIds :
                process_get_more_get_cursor(c, id)
                  => /\ OthersUntouched(auth_state[c])
                     /\ ctx'[c].pc = "got_cursor"
                          => /\ <<id, auth_state[c]>> \in DOMAIN cursor_store
                             /\ ctx'[c].entry = cursor_store[<<id, auth_state[c]>>]
          /\ \A cursor_ids \in SUBSET CursorIds, ok \in BOOLEAN :
                process_kill_cursors(c, cursor_ids, ok)
                  => OthersUntouched(auth_state[c])]_vars

\* The clients are of two users, one of which has a live cursor of id 1 with
\* a connection, and a getMore was just answered CursorNotFound with nothing
\* in progress: it was the other user's getMore for id 1 (the one cursor id
\* there is), and the owner's cursor is still stored.
C20_OtherUsersCursorSurvived ==
    /\ reply = CursorNotFound
    /\ auth_state["a"] # auth_state["b"]
    /\ \A c \in Clients : ctx[c] = IdleContext
    /\ \E key \in DOMAIN cursor_store :
          /\ DOMAIN cursor_store = {key}
          /\ key[1] = 1
          /\ cursor_store[key].conn # NoConn
          /\ ~cursor_store[key].expired

(***************************************************************************)
(* C21.  kill_cursors(username, ids) never fails as a whole and returns a  *)
(* partition of the requested ids: removed is exactly the set of ids that  *)
(* existed for that user (they are gone from the store afterwards and any  *)
(* connection they held is back in its pool), missing is exactly the rest, *)
(* and cursors not named in ids are unchanged; in the reply the alive and  *)
(* unknown sets are empty.  In every killCursors step the store loses      *)
(* exactly the caller's cursors among the ids, each connection of theirs   *)
(* returns once, every other entry is as it was, and the response lists    *)
(* the two sets; the request fails only when the backend call that follows *)
(* the removal does.                                                       *)
(***************************************************************************)
C21_KillCursorsPartitions ==
    [][\A c \in Clients, cursor_ids \in SUBSET KillCursorIds, ok \in BOOLEAN :
          process_kill_cursors(c, cursor_ids, ok)
            => LET username == auth_state[c]
                   existed == {id \in cursor_ids :
                                  <<id, username>> \in DOMAIN cursor_store}
                   keys == {<<id, username>> : id \in existed}
               IN  /\ DOMAIN cursor_store' = (DOMAIN cursor_store) \ keys
                   /\ \A key \in DOMAIN cursor_store' :
                         cursor_store'[key] = cursor_store[key]
                   /\ \A k \in Conns :
                         idle'[k] = idle[k]
                            + Cardinality({key \in keys : cursor_store[key].conn = k})
                   /\ IF reply'.kind = "Ok"
                      THEN /\ reply'.cursorsKilled = existed
                           /\ reply'.cursorsNotFound = cursor_ids \ existed
                           /\ reply'.cursorsAlive = {}
                           /\ reply'.cursorsUnknown = {}
                      ELSE /\ reply'.kind = "BackendError"
                           /\ existed # {}]_vars

\* A killCursors naming an id that existed and one that did not was just
\* answered with the two told apart, and every connection is in its pool.
C21_OneKilledOneMissing ==
    /\ reply = KillCursorsResponse({1}, {2})
    /\ \A k \in Conns : idle[k] = 1
    /\ \A key \in DOMAIN cursor_store : cursor_store[key].conn = NoConn

(***************************************************************************)
(* C22.  A cursor saved with no supplied connection (stateless cursor) is  *)
(* never associated with a held connection, and its idle deadline is       *)
(* computed from the stateless-specific timeout, not from the default      *)
(* cursor timeout; a cursor saved with a connection uses the default       *)
(* timeout.                                                                *)
(***************************************************************************)
\* The entry that the step stored under a key the store did not have.
Saved(key) == key \notin DOMAIN cursor_store /\ key \in DOMAIN cursor_store'

\* As claimed: every save_cursor step that stores a cursor without a
\* connection gives it the stateless timeout, and the default timeout to a
\* cursor it stores with the connection.
C22_StatelessCursorGetsStatelessTimeout ==
    [][\A c \in Clients, cursor \in {"persist", "stateless"}, t \in BOOLEAN :
          save_cursor(c, cursor, t)
            => \A key \in DOMAIN cursor_store' :
                  Saved(key)
                    => /\ cursor = "stateless"
                          => /\ cursor_store'[key].conn = NoConn
                             /\ cursor_store'[key].timeout = "stateless"
                       /\ cursor = "persist"
                          => /\ cursor_store'[key].conn = ctx[c].conn
                             /\ cursor_store'[key].timeout = "default"]_vars

\* What holds: a cursor saved without a connection has none, then and for as
\* long as it is stored, and gets the stateless timeout only if the stateless
\* cursor timeout is enabled (t) when it is saved, the default timeout
\* otherwise; a cursor saved with a connection gets the default timeout, and
\* no cursor that holds a connection ever has the stateless timeout.
C22_StatelessTimeoutWhenEnabled ==
    [][/\ \A c \in Clients, cursor \in {"persist", "stateless"}, t \in BOOLEAN :
             save_cursor(c, cursor, t)
               => \A key \in DOMAIN cursor_store' :
                     Saved(key)
                       => /\ cursor = "stateless"
                             => /\ cursor_store'[key].conn = NoConn
                                /\ cursor_store'[key].timeout =
                                      IF t THEN "stateless" ELSE "default"
                          /\ cursor = "persist"
                             => /\ cursor_store'[key].conn = ctx[c].conn
                                /\ cursor_store'[key].timeout = "default"
       /\ \A key \in DOMAIN cursor_store' :
             /\ cursor_store'[key].conn # NoConn
                  => cursor_store'[key].timeout = "default"
             /\ key \in DOMAIN cursor_store
                  => cursor_store'[key].conn = cursor_store[key].conn
       /\ \A c \in Clients :
             ctx[c].pc = "got_cursor" /\ ctx'[c].pc = "got_cursor"
               => ctx'[c].entry.conn = ctx[c].entry.conn]_vars

\* A find was just answered, nothing is in progress, and the one cursor
\* stored has no connection and the default timeout.
C22_StatelessCursorWithDefaultTimeout ==
    /\ reply = [op |-> "Find", kind |-> "Ok"]
    /\ \A c \in Clients : ctx[c] = IdleContext
    /\ \E key \in DOMAIN cursor_store :
          /\ DOMAIN cursor_store = {key}
          /\ cursor_store[key].conn = NoConn
          /\ cursor_store[key].timeout = "default"
          /\ ~cursor_store[key].expired
    /\ \A k \in Conns : idle[k] = 1

(***************************************************************************)
(* C23.  Invalidating cursors for a dropped collection (db, coll) removes  *)
(* every cursor scoped to exactly that pair, releasing any connection it   *)
(* held, and leaves every cursor scoped to another collection or another   *)
(* database unchanged.  In every invalidation step of a drop of (db, coll) *)
(* the store loses exactly the entries of that database and collection,    *)
(* whoever owns them, each connection of theirs returns to the pool once,  *)
(* and every other entry is as it was, its connection still held.          *)
(***************************************************************************)
C23_DropCollectionInvalidatesItsScope ==
    [][\A c \in Clients, db \in Databases, coll \in Colls :
          process_drop_collection_invalidate(c, db, coll)
            => LET scoped == {key \in DOMAIN cursor_store :
                                 /\ cursor_store[key].db = db
                                 /\ cursor_store[key].coll = coll}
               IN  /\ DOMAIN cursor_store' = (DOMAIN cursor_store) \ scoped
                   /\ \A key \in DOMAIN cursor_store' :
                         /\ cursor_store'[key] = cursor_store[key]
                         /\ cursor_store[key].conn # NoConn
                              => idle'[cursor_store[key].conn] = 0
                   /\ \A k \in Conns :
                         idle'[k] = idle[k]
                            + Cardinality({key \in scoped : cursor_store[key].conn = k})]_vars

\* The drop of a collection has invalidated its cursors and a cursor on the
\* collection of the same name in another database is still stored with its
\* connection, while the other connection is in the pool.
C23_SameNameOtherDatabaseKept ==
    \E c \in Clients, key \in DOMAIN cursor_store :
        /\ ctx[c].pc = "invalidated"
        /\ ctx[c].type = "DropCollection"
        /\ DOMAIN cursor_store = {key}
        /\ cursor_store[key].coll = ctx[c].coll
        /\ cursor_store[key].db # ctx[c].db
        /\ cursor_store[key].conn # NoConn
        /\ \E k \in Conns : idle[k] = 1

(***************************************************************************)
(* Properties of the configuration (SpecGetters, SpecConfig).              *)
(***************************************************************************)
\* The stored value of the key parses with parse.
Parses(parse(_), key) == key \in DOMAIN values /\ parse(values[key]).ok

(***************************************************************************)
(* C24.  The typed configuration getters never fail: for every key and     *)
(* default, get_bool/get_i32/get_u64 return the parsed stored value when   *)
(* the key is present and parses into the requested type, and the supplied *)
(* default when the key is missing or the value does not parse;            *)
(* equals_value returns false for a missing key.  Every getter gives a     *)
(* value of its type, never an error, and leaves the configuration as it   *)
(* is.                                                                     *)
(***************************************************************************)
C24_GettersFallBackToDefault ==
    [][/\ \A key \in ConfigKeys, default \in BOOLEAN :
             /\ get_bool(key, default)
                  => /\ got'.value = IF Parses(ParseBool, key)
                                     THEN ParseBool(values[key]).value ELSE default
                     /\ got'.value \in BOOLEAN
                     /\ values' = values
       /\ \A key \in ConfigKeys, default \in {0, 7} :
             /\ get_i32(key, default)
                  => /\ got'.value = IF Parses(ParseI32, key)
                                     THEN ParseI32(values[key]).value ELSE default
                     /\ got'.value \in Int
                     /\ values' = values
       /\ \A key \in ConfigKeys, default \in {U64(0, 0), U64(0, 7)} :
             /\ get_u64(key, default)
                  => /\ got'.value = IF Parses(ParseU64, key)
                                     THEN ParseU64(values[key]).value ELSE default
                     /\ got'.value.hi >= 0 /\ got'.value.lo >= 0
                     /\ values' = values
       /\ \A key \in ConfigKeys, value \in {"true", "25", "always"} :
             /\ equals_value(key, value)
                  => /\ got'.value \in BOOLEAN
                     /\ key \notin DOMAIN values => got'.value = FALSE
                     /\ key \in DOMAIN values => got'.value = (values[key] = value)
                     /\ values' = values]_vars

\* get_bool was just asked, with the default true, for a key whose stored
\* value is a number, and gave the default.
C24_DefaultForUnparsableValue ==
    /\ got.op = "get_bool"
    /\ got.key \in DOMAIN values
    /\ values[got.key] = "25"
    /\ got.value = TRUE

\* The settings dumps that the reloads find.
ReloadDumps == Dumps(ReloadSettings)

\* The mappings that the loads of the reloads can build.
ReloadSnapshots == Snapshots(HostFiles, Dumps(ReloadSettings), Probes)

(***************************************************************************)
(* C25.  A reload replaces the configuration mapping wholesale and         *)
(* atomically: every read that runs concurrently with a reload observes    *)
(* either the complete old mapping or the complete new mapping, never a    *)
(* mixture, and after a successful reload the mapping contains exactly the *)
(* keys produced by that reload (no key of the previous snapshot survives  *)
(* unless reloaded).  The mapping changes in one step only, in which it    *)
(* becomes the mapping that the load of this reload built, a result of     *)
(* load_configurations; every read gives what the mapping of its state     *)
(* holds for the key; and a reload that ends well leaves the mapping it    *)
(* loaded.                                                                 *)
(***************************************************************************)
C25_ReloadSwapsWholeMapping ==
    [][/\ values' # values
            => /\ refresh.pc = "loaded"
               /\ refresh'.pc = "stored"
               /\ values' = refresh.new_config
       /\ refresh.pc = "connected" /\ refresh'.pc = "loaded"
            => refresh'.new_config
                  \in ReloadSnapshots
       /\ refresh.pc \in {"loaded", "stored"} /\ refresh'.pc \in {"loaded", "stored"}
            => refresh'.new_config = refresh.new_config
       /\ refresh'.pc = "stored" => values' = refresh'.new_config
       /\ refresh.pc = "stored" /\ refresh'.outcome = "reloaded"
            => values' = refresh.new_config
       /\ got'.op = "get_str" /\ values' = values
            => got'.value = IF got'.key \in DOMAIN values
                              THEN values[got'.key] ELSE None]_vars

\* While a reload that has loaded its new mapping waits to store it, a read
\* was just given the old mapping's value of a key that the new mapping
\* does not have.
C25_ReadDuringReload ==
    /\ refresh.pc = "loaded"
    /\ got.op = "get_str"
    /\ got.key \in (DOMAIN values) \ (DOMAIN refresh.new_config)
    /\ got.value = values[got.key]

(***************************************************************************)
(* C26.  A reload that fails (connection acquisition, settings-dump query  *)
(* or recovery probe fails) leaves every previously loaded key/value and   *)
(* the last-successful-refresh time exactly unchanged, and the refresh     *)
(* loop keeps running and retries on the next interval.  A step of the     *)
(* refresh task that ends a reload in failure changes neither the mapping  *)
(* nor last_update_at and puts the task back to sleep, from where the next *)
(* interval starts the next reload; and the load of a reload fails when    *)
(* the settings dump or the recovery probe fails.                          *)
(***************************************************************************)
C26_FailedReloadChangesNothing ==
    [][/\ refresh' # refresh /\ refresh'.outcome \in {"acquire_failed", "reload_failed"}
            => /\ values' = values
               /\ last_update_at' = last_update_at
               /\ refresh' = [RefreshSleeping EXCEPT !.outcome = refresh'.outcome]
       /\ \A host \in HostFiles, recovery \in Probes :
             reload_load(host, DumpError, recovery)
                => refresh'.outcome = "reload_failed"
       /\ \A host \in HostFiles, dump \in ReloadDumps :
             reload_load(host, dump, ProbeError)
                => refresh'.outcome = "reload_failed"
       /\ refresh_acquire_connection(FALSE)
             => refresh'.outcome = "acquire_failed"]_vars

\* A reload has failed at its load while the mapping holds the keys of an
\* earlier, successful reload, which also set the time of the last update.
C26_FailedAfterSuccessfulReload ==
    /\ refresh.pc = "sleep"
    /\ refresh.outcome = "reload_failed"
    /\ "max_connections" \in DOMAIN values
    /\ last_update_at > 0

\* The host-file keys of a snapshot.
HostFileKeys == {"IsPrimary", "SendShutdownResponses"}

(***************************************************************************)
(* C27.  A missing or unparsable host configuration file never makes a     *)
(* reload fail: the reload still succeeds with the settings read from the  *)
(* backend and the recovery flag, and only the host-file keys (IsPrimary,  *)
(* SendShutdownResponses) are absent from the new snapshot.  A load step   *)
(* of a reload whose host file is missing or unparsable and whose two      *)
(* queries succeed ends with a new mapping, which has neither host-file    *)
(* key, has the recovery flag, and is what the load of a host file that    *)
(* parses gives for the same query results, less the host-file keys.       *)
(***************************************************************************)
C27_HostFileFailureIsNotFatal ==
    [][refresh.pc = "connected" /\ refresh' # refresh =>
       \A host \in {HostFileMissing, HostFileUnparsable},
          dump \in ReloadDumps \ {DumpError},
          recovery \in Probes \ {ProbeError} :
          reload_load(host, dump, recovery)
             => /\ refresh'.pc = "loaded"
                /\ (DOMAIN refresh'.new_config) \cap HostFileKeys = {}
                /\ POSTGRES_RECOVERY_KEY \in DOMAIN refresh'.new_config
                /\ LET with_file ==
                          load_configurations(HostFile("True", ""), dump, recovery).configs
                   IN  /\ HostFileKeys \subseteq DOMAIN with_file
                       /\ refresh'.new_config =
                             [k \in (DOMAIN with_file) \ HostFileKeys |-> with_file[k]]]_vars

\* A reload has just stored its new mapping, which has a setting of the
\* backend and the recovery flag but no host-file key.
C27_SnapshotWithoutHostFileKeys ==
    /\ refresh.pc = "stored"
    /\ values = refresh.new_config
    /\ (DOMAIN values) \cap HostFileKeys = {}
    /\ {"max_connections", POSTGRES_RECOVERY_KEY} \subseteq DOMAIN values
    /\ got.op = "-"

\* The statements of the call, in the order they were sent, and whether the
\* call has just returned.
Stmts == [i \in DOMAIN issued |-> issued[i].statement]
Returned == query_result.kind # "-"
\* The call that has just returned ran inside an ambient transaction with a
\* timeout.
ReturnedInTransaction ==
    Returned /\ in_transaction /\ query_result.timeout # NoTimeout

(***************************************************************************)
(* C28, as stated.  When query runs on a connection already inside an      *)
(* ambient transaction with a timeout of either kind (Command or           *)
(* Transaction), the statements issued are exactly: set the                *)
(* transaction-local statement timeout, the query, restore the default     *)
(* transaction-local timeout; no BEGIN, COMMIT or ROLLBACK is issued, and  *)
(* the restore is issued whether or not the query succeeded.               *)
(***************************************************************************)
C28_InTransactionIssuesSetQueryRestore ==
    ReturnedInTransaction
       => Stmts = << SetLocal(query_result.timeout.max_time_ms), TheQuery,
                     SetLocal(DefaultTimeoutMs) >>

(***************************************************************************)
(* C28, amended.  When query runs on a connection already inside an        *)
(* ambient transaction with a timeout of either kind, it first sets the    *)
(* transaction-local statement timeout; if that statement fails, the call  *)
(* returns its error and issues nothing else.  Otherwise the statements    *)
(* issued are exactly: the transaction-local timeout, the query, the       *)
(* restore of the default transaction-local timeout, and the restore is    *)
(* issued whether or not the query succeeded.  No BEGIN, COMMIT or         *)
(* ROLLBACK is issued on either path.  The call returns the error of the   *)
(* restore if the restore fails, the result of the query otherwise.        *)
(***************************************************************************)
C28_InTransactionSetThenQueryAndRestore ==
    ReturnedInTransaction
       => /\ Len(issued) >= 1
          /\ Stmts[1] = SetLocal(query_result.timeout.max_time_ms)
          /\ ~issued[1].ok
                => /\ Len(issued) = 1
                   /\ query_result.kind = "Err" /\ query_result.of = "set local"
          /\ issued[1].ok
                => /\ Stmts = << SetLocal(query_result.timeout.max_time_ms), TheQuery,
                                 SetLocal(DefaultTimeoutMs) >>
                   /\ query_result.kind = "Ok" <=> issued[2].ok /\ issued[3].ok
                   /\ query_result.of = IF issued[3].ok THEN "query" ELSE "restore"
          /\ \A i \in DOMAIN issued : Stmts[i] \notin {Begin, Commit, Rollback}

\* A call with a Command timeout inside an ambient transaction has returned
\* the error of its query after it has restored the default timeout.
C28_RestoredAfterFailedQuery ==
    /\ ReturnedInTransaction
    /\ query_result.timeout.timeout_type = "Command"
    /\ Len(issued) = 3
    /\ ~issued[2].ok /\ issued[3].ok
    /\ query_result.kind = "Err" /\ query_result.of = "query"

\* The call that has just returned ran outside a transaction with a timeout
\* of the given kind.
ReturnedOutside(timeout_type) ==
    Returned /\ ~in_transaction /\ query_result.timeout.timeout_type = timeout_type

C30_CommandTimeoutSetQueryReset ==
    ReturnedOutside("Command")
       => /\ Stmts = << SetSession(query_result.timeout.max_time_ms), TheQuery,
                        SetSession(DefaultTimeoutMs) >>
          /\ backend.session_timeout = DefaultTimeoutMs

(***************************************************************************)
(* C30, amended.  When query runs outside a transaction with a             *)
(* Command-kind timeout, it first sets the statement timeout session-wide; *)
(* if that statement fails, the call returns its error and issues nothing  *)
(* else.  Otherwise it runs the                                            *)
(* query and then issues the reset of the session timeout to the default   *)
(* (120 seconds) whether the query succeeded or failed; the connection     *)
(* keeps the caller's timeout after the call only if the reset statement   *)
(* itself fails, in which case the call returns the error of the reset.    *)
(* No BEGIN, COMMIT or ROLLBACK is issued on any path.                     *)
(***************************************************************************)
C30_CommandTimeoutSetThenQueryAndReset ==
    ReturnedOutside("Command")
       => /\ Len(issued) >= 1
          /\ Stmts[1] = SetSession(query_result.timeout.max_time_ms)
          /\ ~issued[1].ok
                => /\ Len(issued) = 1
                   /\ query_result.kind = "Err" /\ query_result.of = "set"
          /\ issued[1].ok
                => /\ Stmts = << SetSession(query_result.timeout.max_time_ms), TheQuery,
                                 SetSession(DefaultTimeoutMs) >>
                   /\ query_result.kind = "Ok" <=> issued[2].ok /\ issued[3].ok
                   /\ query_result.of = IF issued[3].ok THEN "query" ELSE "reset"
                   /\ backend.session_timeout =
                         IF issued[3].ok THEN DefaultTimeoutMs
                         ELSE query_result.timeout.max_time_ms
          /\ \A i \in DOMAIN issued : Stmts[i] \notin {Begin, Commit, Rollback}

\* A call with a Command timeout outside a transaction has returned the
\* error of its query, and the session timeout is the default again.
C30_ResetAfterFailedQuery ==
    /\ ReturnedOutside("Command")
    /\ Len(issued) = 3
    /\ ~issued[2].ok /\ issued[3].ok
    /\ query_result.kind = "Err" /\ query_result.of = "query"
    /\ backend.session_timeout = DefaultTimeoutMs

\* The statements of the call that end a transaction.
Endings == {i \in DOMAIN issued : Stmts[i] \in {Commit, Rollback}}
\* The call that has just returned issued a BEGIN that the backend ran.
ReturnedAfterBegin ==
    /\ Returned
    /\ \E i \in DOMAIN issued : Stmts[i] = Begin /\ issued[i].ok

(***************************************************************************)
(* C31.  Every call of query that issues BEGIN issues exactly one matching *)
(* COMMIT or ROLLBACK before it returns, on every path including a failure *)
(* of the set-timeout statement, of the query, or of COMMIT itself; hence  *)
(* a connection never goes back to the pool with the wrapper's transaction *)
(* still open.  When a call whose BEGIN ran has returned, exactly one of   *)
(* its statements is a COMMIT or a ROLLBACK, and if that statement ran the *)
(* backend has no transaction open.                                        *)
(***************************************************************************)
C31_BeginIsMatchedByOneEnding ==
    ReturnedAfterBegin
       => /\ Cardinality(Endings) = 1
          /\ \A i \in Endings : issued[i].ok => ~backend.open

\* C31's failing case: the call has returned the error of the set local
\* statement after its BEGIN ran; it sent neither COMMIT nor ROLLBACK and
\* the transaction it began is open on the idle connection.
C31_ReturnedWithTransactionOpen ==
    /\ ReturnedAfterBegin
    /\ ~in_transaction
    /\ query_call.pc = "idle"
    /\ Len(issued) = 2 /\ ~issued[2].ok
    /\ query_result.kind = "Err" /\ query_result.of = "set local"
    /\ Endings = {}
    /\ backend.open

(***************************************************************************)
(* C32.  After process_get_more on an existing cursor, the cursor is in    *)
(* the store again (same id, owner, db, collection, session and            *)
(* connection, with a refreshed deadline) if and only if the backend call  *)
(* succeeded and returned a non-null continuation; when the result is      *)
(* exhausted or the backend call fails the cursor stays removed and a      *)
(* later getMore for that id fails with CursorNotFound.  The step that     *)
(* ends a getMore which took its cursor leaves an entry under the cursor's *)
(* key exactly when the backend gave a continuation, and that entry has    *)
(* the connection, database and collection of the one taken and is not     *)
(* expired; the other entries are as they were; and a getMore for a key    *)
(* that has no entry is answered CursorNotFound.                           *)
(***************************************************************************)
C32_StoredAgainIffContinuation ==
    [][/\ \A c \in Clients, result \in {"error", "exhausted", "more"}, t \in BOOLEAN :
             process_get_more_execute(c, result, t)
               => LET key == <<ctx[c].id, auth_state[c]>>
                  IN  /\ key \notin DOMAIN cursor_store
                      /\ key \in DOMAIN cursor_store' <=> result = "more"
                      /\ result = "more"
                            => /\ cursor_store'[key].conn = ctx[c].entry.conn
                               /\ cursor_store'[key].db = ctx[c].entry.db
                               /\ cursor_store'[key].coll = ctx[c].entry.coll
                               /\ ~cursor_store'[key].expired
                      /\ \A other \in DOMAIN cursor_store :
                            /\ other \in DOMAIN cursor_store'
                            /\ cursor_store'[other] = cursor_store[other]
                      /\ reply'.kind = CASE result = "error" -> "BackendError"
                                         [] OTHER -> "Ok"
       /\ \A c \in Clients, id \in CursorIds :
             process_get_more_get_cursor(c, id) /\ <<id, auth_state[c]>> \notin DOMAIN cursor_store
               => reply' = CursorNotFound /\ cursor_store' = cursor_store]_vars

\* A getMore has just returned the last batch of its cursor: the store has
\* no cursor, no request is in progress and every connection is in its pool.
C32_ExhaustedCursorStaysRemoved ==
    /\ reply = [op |-> "GetMore", kind |-> "Ok"]
    /\ cursor_store = << >>
    /\ \A c \in Clients : ctx[c] = IdleContext
    /\ \A k \in Conns : idle[k] = 1

(***************************************************************************)
(* C33.  Every phase the execution wrapper performs (begin, set-timeout,   *)
(* execute, commit or rollback, reset) is recorded against the request's   *)
(* interval tracker on every path: for each statement issued by query      *)
(* there is a recorded interval, also when the query fails and a rollback  *)
(* is issued.  When a call has returned, the tracker holds one interval    *)
(* for each statement the call sent.                                       *)
(***************************************************************************)
C33_EveryStatementHasAnInterval ==
    Returned => Len(request_tracker) = Len(issued)

\* C33's failing case: a call with a Transaction timeout has returned the
\* error of its query after BEGIN, the timeout, the query and ROLLBACK; the
\* tracker holds the intervals of BEGIN and of the timeout only.
C33_FailedQueryAndRollbackUnrecorded ==
    /\ ReturnedOutside("Transaction")
    /\ Stmts = << Begin, SetLocal(query_result.timeout.max_time_ms), TheQuery, Rollback >>
    /\ issued[4].ok
    /\ query_result.kind = "Err" /\ query_result.of = "query"
    /\ request_tracker = << "PostgresBeginTransaction", "PostgresSetStatementTimeout" >>

\* The holders of a registry lock, and the holders that are suspended until
\* an acquire_connection in progress ends: the sweep at a last_used() of a
\* pool being acquired, a caller inside its own acquisition.
LockHolders(lock) == lock.readers \cup (IF lock.writer = NoOne THEN {} ELSE {lock.writer})
WaitsForAcquisition(holder, map) ==
    \/ holder = Sweeper /\ ~CanScan(map)
    \/ holder \in Callers /\ pc[holder] = "acquiring"

Removing(map) == sweep.keys_to_remove \cap DOMAIN map

(***************************************************************************)
(* C35.  At the moment clean_unused_pools removes a registry entry, that   *)
(* pool's last-used age exceeds max_age: a pool on which a connection was  *)
(* acquired after the sweep's scan phase but before its removal phase is   *)
(* not removed.  Every entry that a removal step of the sweep takes out of *)
(* a registry is of a pool that is unused for more than max_age at that    *)
(* step.                                                                   *)
(***************************************************************************)
C35_RemovedPoolsAreUnused ==
    [][/\ clean_user_remove
            => \A key \in Removing(user_data_pools) :
                  Unused(user_data_pools[key], SweepMaxAge)
       /\ clean_shared_remove
            => \A key \in Removing(system_shared_pools) :
                  Unused(system_shared_pools[key], SweepMaxAge)]_vars

\* C35's failing case: the scan has collected the key of a registered user
\* pool, a connection was acquired on the pool since, at the current time,
\* and the removal, for which the registry is free, takes the entry out.
C35_RemovalOfPoolJustUsed ==
    /\ sweep.pc = "remove_user"
    /\ CanWrite(user_lock)
    /\ \E key \in Removing(user_data_pools) :
          /\ pools[user_data_pools[key]].last_used = now
          /\ ~Unused(user_data_pools[key], SweepMaxAge)
          /\ user_data_pools[key] \in handed

\* The stored cursors in the scope of the drop that client c has in progress.
ScopeOfDrop(c) ==
    {key \in DOMAIN cursor_store :
        /\ cursor_store[key].db = ctx[c].db
        /\ ctx[c].type = "DropCollection" => cursor_store[key].coll = ctx[c].coll}

(***************************************************************************)
(* C36.  After process_drop_collection (or process_drop_database) returns  *)
(* success, the cursor store contains no cursor scoped to the dropped      *)
(* collection (or database), also when other requests on the same          *)
(* collection run concurrently: a cursor saved by save_cursor between the  *)
(* invalidation step and the completion of the drop does not survive.  At  *)
(* the step with which a drop returns success, the store holds no cursor   *)
(* of the collection, or of the database, that was dropped.                *)
(***************************************************************************)
C36_NoCursorOfDroppedScope ==
    [][\A c \in Clients :
          \/ process_drop_collection_execute(c, TRUE)
          \/ process_drop_database_execute(c, TRUE)
          => /\ ScopeOfDrop(c) = {}
             /\ cursor_store' = cursor_store]_vars

\* C36's failing case: the drop of a collection has invalidated the cursors
\* and has not yet returned; a find on the same collection has since saved
\* a cursor, which is in the store when the drop completes.
C36_CursorSavedDuringDrop ==
    \E c, d \in Clients :
        /\ c # d
        /\ ctx[c].pc = "invalidated"
        /\ ctx[c].type = "DropCollection"
        /\ ctx[d] = IdleContext
        /\ reply = [op |-> "Find", kind |-> "Ok"]
        /\ ScopeOfDrop(c) # {}

\* The definition of is_replica_cluster (dynamic.rs 59-65) evaluated on the
\* one mapping configs.
is_replica_cluster_on(configs) ==
    \/ /\ get_bool_of(configs, POSTGRES_RECOVERY_KEY, FALSE)
       /\ equals_value_of(configs, "citus.use_secondary_nodes", "always")
    \/ get_bool_of(configs, "simulateReadReplica", FALSE)

\* C37: a derived accessor returns its definition evaluated on one single
\* snapshot, also when a reload swaps the snapshot during the call: what
\* is_replica_cluster returned is (in recovery and citus.use_secondary_nodes
\* = always) or simulateReadReplica of one of the snapshots that were current
\* during the call, and what is_postgres_writable returned is the negation of
\* the in-recovery flag of the current snapshot.
C37_AccessorsReadOneSnapshot ==
    /\ got.op = "is_replica_cluster" =>
         \E configs \in accessor.seen : got.value = is_replica_cluster_on(configs)
    /\ got.op = "is_postgres_writable" =>
         got.value = ~get_bool_of(values, POSTGRES_RECOVERY_KEY, FALSE)

\* C37, its case: is_replica_cluster has returned true after a reload swapped
\* the snapshot between its reads, and on neither snapshot is the cluster a
\* replica cluster.
C37_ReplicaOfNoSnapshot ==
    /\ got.op = "is_replica_cluster"
    /\ got.value = TRUE
    /\ Cardinality(accessor.seen) = 2
    /\ \A configs \in accessor.seen : ~is_replica_cluster_on(configs)

\* C38: the pool manager, the pools and the configuration store never
\* deadlock: under every interleaving with the scheduling of FairSteps, a call
\* of a caller that has begun returns, a sweep that has begun ends, a reload
\* that has begun ends, and a registry lock that is held is released.
C38_EveryCallReturns ==
    /\ \A c \in Callers : (pc[c] # "idle") ~> (pc[c] = "idle")
    /\ (sweep # Idle) ~> (sweep = Idle)
    /\ (refresh.pc # "sleep") ~> (refresh.pc = "sleep")
    /\ (user_lock # FreeLock) ~> (user_lock = FreeLock)
    /\ (shared_lock # FreeLock) ~> (shared_lock = FreeLock)

\* C38, its case: a caller waits for the write lock of the user registry
\* while the sweep holds its read lock and waits for the last_used of a pool
\* that another caller is acquiring from, and a reload is under way.
C38_EveryoneWaits ==
    /\ \E c \in Callers : pc[c] = "alloc_wlock"
    /\ \E c \in Callers : pc[c] = "acquiring" /\ call[c].pool \in Range(user_data_pools)
    /\ sweep.pc = "scanning_user"
    /\ refresh.pc = "loaded"

\* The key a settings row is stored under, said without the loop: the name
\* itself when it starts with none of the configured prefixes, otherwise the
\* name without the earliest configured prefix that it starts with.
StoredKey(name) ==
    LET matching == {k \in 1..Len(settings_prefixes) :
                        starts_with(Pieces(name), settings_prefixes[k])}
        first == CHOOSE k \in matching : \A other \in matching : k <= other
    IN  IF matching = {} THEN name
        ELSE Joined(SliceFrom(Pieces(name), Len(settings_prefixes[first])))

\* The rows of a dump that are stored under key, by position.
RowsOf(rows, key) == {i \in 1..Len(rows) : StoredKey(rows[i][1]) = key}

\* The loads of the reloads: what was read and the snapshot built from it.
PrecedenceLoads ==
    {[host |-> host, rows |-> dump.rows, recovery |-> recovery,
      configs |-> load_configurations(host, dump, recovery).configs] :
        host \in PrecedenceHostFiles, dump \in PrecedenceDumps \ {DumpError},
        recovery \in Probes \ {ProbeError}}

\* C39: a reloaded snapshot is built with a fixed precedence and
\* normalisation.  Its keys are the host file's two keys (if the file
\* loaded), the names of the settings with the first matching configured
\* prefix cut off once, and the in-recovery flag.  The in-recovery flag is
\* what the probe gave, whatever setting is named IsPostgresInRecovery; any
\* other key that a setting is stored under holds the setting of the last
\* such row with on and off stored as true and false, also when the host
\* file has a key of that name; a host-file key that no setting is stored
\* under holds the lower-cased value of the host file.
C39_SnapshotPrecedence ==
    [][(refresh.pc = "connected" /\ refresh'.pc = "loaded") =>
         \A load \in PrecedenceLoads :
           load.configs = refresh'.new_config =>
             LET configs == refresh'.new_config
                 rows == load.rows
                 host_keys == IF load.host.state = "parsed"
                              THEN {"IsPrimary", "SendShutdownResponses"} ELSE {}
             IN  /\ DOMAIN configs = host_keys \cup {POSTGRES_RECOVERY_KEY}
                                        \cup {StoredKey(rows[i][1]) : i \in 1..Len(rows)}
                 /\ configs[POSTGRES_RECOVERY_KEY] =
                       (IF load.recovery = InRecovery THEN "true" ELSE "false")
                 /\ \A key \in DOMAIN configs \ {POSTGRES_RECOVERY_KEY} :
                       IF RowsOf(rows, key) # {}
                       THEN LET last == CHOOSE i \in RowsOf(rows, key) :
                                           \A j \in RowsOf(rows, key) : j <= i
                            IN  configs[key] = (CASE rows[last][2] = "on" -> "true"
                                                  [] rows[last][2] = "off" -> "false"
                                                  [] OTHER -> rows[last][2])
                       ELSE configs[key] = (IF key = "IsPrimary"
                                            THEN ToLowercase(load.host.is_primary)
                                            ELSE ToLowercase(load.host.send_shutdown_responses))
    ]_vars

\* C39, its case: a load has built a snapshot from a host file with IsPrimary
\* True and from the settings documentdb.gateway.readOnly = on and IsPrimary
\* = off: one prefix is cut off, on is stored as true and the setting has
\* replaced the host file's IsPrimary.
C39_PrefixCutOnceAndHostKeyOverridden ==
    /\ refresh.pc = "loaded"
    /\ DOMAIN refresh.new_config =
          {"IsPrimary", "SendShutdownResponses", "gateway.readOnly", POSTGRES_RECOVERY_KEY}
    /\ refresh.new_config["gateway.readOnly"] = "true"
    /\ refresh.new_config["IsPrimary"] = "false"

\* The effective max-connections of a snapshot, case by case: the stored
\* number when it is a non-negative 32-bit integer, 25 when the key is
\* missing, is no number, is out of the range of i32 or is negative.
EffectiveMaxConnections(configs) ==
    IF "max_connections" \notin DOMAIN configs THEN 25
    ELSE CASE configs["max_connections"] = "5" -> 5
           [] configs["max_connections"] = "25" -> 25
           [] configs["max_connections"] = "-1" -> 25
           [] configs["max_connections"] = "true" -> 25
           [] configs["max_connections"] = "3000000000" -> 25

\* C40: the max-connections value that keys the pools is never negative or
\* undefined.  max_connections returns the stored value when it is a
\* non-negative 32-bit integer and 25 when the key is missing, unparsable or
\* negative; every pool of a registry is registered under that value, every
\* call carries it, and a lookup of a user key that is registered under it
\* finds the pool.
C40_OneKeyPerSnapshot ==
    /\ got.op = "max_connections" =>
         got.value = EffectiveMaxConnections(values) /\ got.value >= 0
    /\ \A key \in DOMAIN user_data_pools : key[3] = EffectiveMaxConnections(values)
    /\ \A key \in DOMAIN system_shared_pools : key = EffectiveMaxConnections(values)
    /\ \A c \in Callers : pc[c] # "idle" => call[c].m = EffectiveMaxConnections(values)
    /\ ret.op = "get_data_pool" =>
         /\ ret.m = EffectiveMaxConnections(values)
         /\ ret.kind = "Ok" <=> <<ret.user, ret.pass, ret.m>> \in DOMAIN user_data_pools

\* C40, its case: the snapshot holds a negative max_connections and a pool
\* provisioned under 25 is found by a lookup.
C40_LookupFindsPoolOfDefaultKey ==
    /\ "max_connections" \in DOMAIN values
    /\ values["max_connections"] = "-1"
    /\ ret.op = "get_data_pool"
    /\ ret.kind = "Ok"
    /\ ret.m = 25

====
